---- MODULE Spec2Model ----
(***************************************************************************)
(* Room/session orchestration of the Heist game server: the persisted room *)
(* record, the WebSocket message handlers, the HTTP endpoints and the      *)
(* background tasks (countdown, vote timer, vote result).  Every handler   *)
(* is split at the awaits after which it still writes the room record; the *)
(* room a suspended handler holds is the copy it loaded before the await.  *)
(***************************************************************************)
EXTENDS Integers, Sequences, FiniteSets, TLC

\* ---------------------------------------------------------------- inputs
Ids == {"p1", "p2", "p3", "p4", "p5"}
Host == "p1"
Guests == {"p2"}
\* a player that asks to join after the others are ready
LateGuests == {"p3"}
Roles == {"Hacker", "Safe Cracker"}
\* the roles generate_puzzles has a puzzle for
PuzzleRoles == {"Hacker", "Safe Cracker", "Demolitions", "Lookout"}
RoleInputs == Roles \cup {""}
Terminal == {"completed", "failed"}
\* the source addresses of connection attempts and the room codes they name
Addresses == {"a1"}
RoomCodes == {"r1", "r2"}

\* ---------------------------------------------------------------- bounds
MaxTicks == 1
MaxCountdown == 4
MaxVotes == 1
MaxStage == 7
MaxTimers == 2
MaxDrops == 1
MaxSeqDrops == 3
\* the clock of the event loop: ticks per second and the last tick
TicksPerSecond == 1
MaxLoopTime == 3
\* the admissions of one address within one second that a run goes on from
MaxBurst == 6
\* use_power messages in a run, and the alert level a run may start from
MaxPowers == 2
MaxAlert == 2
\* the sweep periods a run may last
MaxPeriods == 7
\* reloads of a record that store it again as it was
MaxResaves == 2
\* calls of trigger_random_event in a run
MaxEvents == 2
\* the seconds a countdown may start from when its updates are observed
MaxSeconds == 46
\* timer-extension votes initiated in a run whose vote timers are clocked
MaxBallots == 2

\* ------------------------------------------------------ program constants
DefaultTimer == 300
StageBonus == 240
VoteBonus == 60
LastStage == 5
TeamStage == 3
MinPlayers == 2
EventPeriod == 30
MAX_CONNECTIONS_PER_ROOM == 10
MAX_CONNECTIONS_PER_IP == 20
CONNECTION_RATE_LIMIT == 5
HackerBonus == 45
SafeCrackerBonus == 30
DemolitionsBonus == 20
DemolitionsCut == 2
MAX_ROOM_IDLE_TIME == 3600
SweepPeriod == 600
\* timer_vote_time_limit of GameRoom
timer_vote_time_limit == 20

VARIABLES store, playerRec, conns, h, timers, voteTimers, voteFin,
          joined, ticks, nVotes, applied, nDrops, out

\* the connection bookkeeping of websocket.py: its three module-level maps,
\* the event loop's clock in ticks, the endpoint calls that were admitted and
\* have not returned, and the admissions of each address that are less than
\* one second old
VARIABLES connections_by_ip, connections_by_room, connection_times_by_ip,
          loop_time, handlers, admitted

\* the tasks started by role powers, the number of power messages so far,
\* and whether GameRoom accepts attributes that are not fields
VARIABLES effects, nPowers, extra

\* the sweep: the last_activity stamp of the room record and the wall clock;
\* a serialized room record on its own and the number of times it was
\* reloaded and stored again since it was last changed
VARIABLES last_activity, now, record, resaves

\* the Redis set of the player ids of the room, and a call of
\* broadcast_to_room in progress
VARIABLES room_connections, fanout

\* a call of trigger_random_event: where it is suspended, the event it drew,
\* whether it has broadcast the warning, and the number of calls so far
VARIABLES scheduler

\* the tasks of run_vote_timer (where each is suspended, its local
\* time_remaining, the vote it was created for) and the seconds elapsed since
\* the vote now in the record was initiated
VARIABLES vote_timer

game == <<store, playerRec, conns, h, timers, voteTimers, voteFin,
          joined, ticks, nVotes, applied, nDrops, out>>

edge == <<connections_by_ip, connections_by_room, connection_times_by_ip,
          loop_time, handlers, admitted>>

power == <<effects, nPowers, extra>>

upkeep == <<last_activity, now, record, resaves>>

relay == <<room_connections, fanout, scheduler, vote_timer>>

vars == <<game, edge, power, upkeep, relay>>

\* ----------------------------------------------------------- data model
EmptyMap == [x \in {} |-> TRUE]

NoRoom == [status |-> "absent"]

Present(r) == r.status # "absent"

Player(role, connected, is_host) ==
    [role |-> role, connected |-> connected, is_host |-> is_host]

GameRoom(players) ==
    [players |-> players, stage |-> 0, alert_level |-> 0,
     timer |-> DefaultTimer, status |-> "waiting", puzzles |-> EmptyMap,
     timer_vote_active |-> FALSE, yes |-> <<>>, no |-> <<>>,
     timer_vote_initiator |-> "", vote_id |-> 0,
     next_events_visible |-> FALSE, shortcuts |-> 0,
     has_original_alert_level |-> FALSE, original_alert_level |-> 0]

Msg(type, to, info, a, b, c) ==
    [type |-> type, to |-> to, context |-> "", info |-> info,
     a |-> a, b |-> b, c |-> c, d |-> 0]

Err(p, context, info) == [Msg("error", p, info, 0, 0, 0) EXCEPT !.context = context]

Bcast(type) == Msg(type, "room", "", 0, 0, 0)

\* a connection's handler: where it is suspended, the room it holds, and
\* whether the puzzle it was sent a solution for was completed already
Busy(pc, room) == [pc |-> pc, room |-> room, again |-> FALSE]
Closed == Busy("closed", NoRoom)
Idle == Busy("idle", NoRoom)
TimerOff == [pc |-> "off", room |-> NoRoom, sent |-> 0]

\* the order in which the ids of a set are listed
Order == <<"p1", "p2", "p3", "p4", "p5">>

SeqOf(S) == SelectSeq(Order, LAMBDA q : q \in S)

Range(s) == {s[i] : i \in 1..Len(s)}

\* every player of the roster instead of the connected ones
RosterCount(r) == Cardinality(DOMAIN r.players)

\* the players of the room marked connected
ConnectedCount(r) ==
    Cardinality({q \in DOMAIN r.players : r.players[q].connected})

IsHost(r, p) == p \in DOMAIN r.players /\ r.players[p].is_host

RoleOf(r, p) == IF p \in DOMAIN r.players THEN r.players[p].role ELSE ""

\* the loop "Check if role is already taken" of both select_role handlers
RoleTaken(r, p, role) ==
    \E q \in DOMAIN r.players : r.players[q].role = role /\ q # p

PlayersWithoutRoles(r) == {q \in DOMAIN r.players : r.players[q].role = ""}

IndividualPuzzle ==
    [completed |-> FALSE, completes_stage |-> FALSE, hint_active |-> FALSE]
TeamPuzzle(flag) ==
    [completed |-> FALSE, completes_stage |-> flag, hint_active |-> FALSE]

\* generate_puzzles: the set of results of its random choice
GeneratePuzzles(r, stage) ==
    LET own == {q \in DOMAIN r.players : r.players[q].role \in PuzzleRoles}
        individual == [q \in own |-> IndividualPuzzle]
        regular == IF stage >= TeamStage
                   THEN individual @@ ("team" :> TeamPuzzle(FALSE))
                   ELSE individual
    IN  IF stage > 3 THEN {("team" :> TeamPuzzle(TRUE)), regular}
                     ELSE {regular}

\* no connection was ever attempted
NoEdge ==
    /\ connections_by_ip = [a \in Addresses |-> 0]
    /\ connections_by_room = [c \in RoomCodes |-> 0]
    /\ connection_times_by_ip = [a \in Addresses |-> <<>>]
    /\ loop_time = 0
    /\ handlers = [a \in Addresses, c \in RoomCodes |-> 0]
    /\ admitted = [a \in Addresses |-> <<>>]

\* no power was used
NoPower ==
    /\ effects = <<>>
    /\ nPowers = 0
    /\ extra = FALSE

\* the record was written at second 0 and no time has passed
NoUpkeep ==
    /\ last_activity = 0
    /\ now = 0
    /\ record = EmptyMap
    /\ resaves = 0

\* a call of broadcast_to_room: the ids it was given by get_players_in_room,
\* the ids still to visit, the excluded id, the ids visited and sent_count
Fanout(pc, ids, todo, exclude) ==
    [pc |-> pc, ids |-> ids, todo |-> todo, exclude |-> exclude,
     visited |-> {}, sent_count |-> 0]

NoFanout == Fanout("idle", {}, {}, "")

\* no broadcast is in progress; where broadcast_to_room is not followed
\* recipient by recipient the set is not kept: a player of the set is one
\* whose player record is present
VoteTaskOff == [pc |-> "off", time_remaining |-> 0, vote |-> 0]

NoVoteTimer == [tasks |-> [i \in 1..MaxBallots |-> VoteTaskOff], elapsed |-> 0]

NoEvent == [pc |-> "idle", event |-> "", warned |-> FALSE, calls |-> 0]

NoRelay ==
    /\ room_connections = {}
    /\ fanout = NoFanout
    /\ scheduler = NoEvent
    /\ vote_timer = NoVoteTimer

\* ------------------------------------------------------------------ Init
Init ==
    /\ store = GameRoom(Host :> Player("", TRUE, TRUE))
    /\ playerRec = [q \in Ids |-> IF q = Host THEN "on" ELSE "absent"]
    /\ conns = {}
    /\ h = [q \in Ids |-> Closed]
    /\ timers = [i \in 1..MaxTimers |-> TimerOff]
    /\ voteTimers = 0
    /\ voteFin = <<>>
    /\ joined = {Host}
    /\ ticks = 0
    /\ nVotes = 0
    /\ applied = [k \in 0..MaxVotes |-> 0]
    /\ nDrops = 0
    /\ out = {}
    /\ NoEdge
    /\ NoPower
    /\ NoUpkeep
    /\ NoRelay

\* a handler that indexes connected_players[player_id] for a sender that is
\* not registered raises KeyError: the endpoint closes without running the
\* disconnect path
Crash(p) ==
    /\ h' = [h EXCEPT ![p] = Closed]
    /\ out' = {}

\* send an error to the sender through connected_players[player_id]
Reject(p, context, info) ==
    IF p \in conns
    THEN /\ out' = {Err(p, context, info)}
         /\ h' = h
    ELSE Crash(p)

\* process_websocket_message when get_room_data returns nothing
RoomNotFound(p) ==
    /\ out' = IF p \in conns THEN {Err(p, "room", "Room not found")} ELSE {}
    /\ h' = h

Receiving(p) == h[p].pc = "idle"

FreeTimers == {i \in 1..MaxTimers : timers[i].pc \in {"off", "done"}}

\* asyncio.create_task(run_game_timer(room_code))
SpawnTimer ==
    LET i == CHOOSE j \in FreeTimers : \A k \in FreeTimers : j <= k
    IN  timers' = [timers EXCEPT ![i] = [pc |-> "check", room |-> NoRoom, sent |-> 0]]

Without(f, p) == [q \in DOMAIN f \ {p} |-> f[q]]

ConnectedRecs == {q \in Ids : playerRec[q] = "on"}

\* mark_player_connection_status: no player record, no change
MarkConnection(p, flag) ==
    IF playerRec[p] = "absent" THEN playerRec ELSE [playerRec EXCEPT ![p] = flag]

\* ------------------------------------------------------- HTTP endpoints
\* a join that does not look at the status of the room
JoinAnyStatus(p, guests) ==
    /\ p \in guests \ joined
    /\ IF ~Present(store)
       THEN /\ out' = {Err("http", "join", "Room not found")}
            /\ UNCHANGED <<store, playerRec, joined>>
       ELSE /\ store' = [store EXCEPT !.players = @ @@ (p :> Player("", TRUE, FALSE))]
            /\ playerRec' = [playerRec EXCEPT ![p] = "on"]
            /\ joined' = joined \cup {p}
            /\ out' = {}
    /\ UNCHANGED <<conns, h, timers, voteTimers, voteFin, ticks, nVotes, applied, nDrops>>
    /\ UNCHANGED <<edge, power, upkeep, relay>>

\* routes.py join_room, for a player of guests that has not joined yet
JoinFrom(p, guests) ==
    /\ p \in guests \ joined
    /\ IF ~Present(store)
       THEN /\ out' = {Err("http", "join", "Room not found")}
            /\ UNCHANGED <<store, playerRec, joined>>
       ELSE IF store.status # "waiting"
       THEN /\ out' = {Err("http", "join", "Game already in progress")}
            /\ UNCHANGED <<store, playerRec, joined>>
       ELSE /\ store' = [store EXCEPT !.players = @ @@ (p :> Player("", TRUE, FALSE))]
            /\ playerRec' = [playerRec EXCEPT ![p] = "on"]
            /\ joined' = joined \cup {p}
            /\ out' = {}
    /\ UNCHANGED <<conns, h, timers, voteTimers, voteFin, ticks, nVotes, applied, nDrops>>
    /\ UNCHANGED <<edge, power, upkeep, relay>>

Join(p) == JoinFrom(p, Guests)

\* routes.py select_role
SelectRoleHTTP(p, role) ==
    /\ p \in joined
    /\ IF ~Present(store)
       THEN /\ out' = {Err("http", "role_selection", "Room not found")}
            /\ store' = store
       ELSE IF p \notin DOMAIN store.players
       THEN /\ out' = {Err("http", "role_selection", "Player not found")}
            /\ store' = store
       ELSE IF RoleTaken(store, p, role)
       THEN /\ out' = {Err("http", "role_selection", "Role already taken")}
            /\ store' = store
       ELSE /\ store' = [store EXCEPT !.players[p].role = role]
            /\ out' = {Bcast("role_confirmed")}
    /\ UNCHANGED <<playerRec, conns, h, timers, voteTimers, voteFin, joined,
                   ticks, nVotes, applied, nDrops>>
    /\ UNCHANGED <<edge, power, upkeep, relay>>

\* the checks of a start without "Check if the game is already in progress"
StartErrorNoStatus(r) ==
    IF Cardinality(DOMAIN r.players) < MinPlayers
    THEN "At least 2 players are required to start the game"
    ELSE IF PlayersWithoutRoles(r) # {} THEN "Not all players have selected roles"
    ELSE ""

\* the checks shared by both start handlers, after the host check
StartError(r) ==
    IF r.status # "waiting" THEN "Game is already in progress"
    ELSE IF Cardinality(DOMAIN r.players) < MinPlayers
    THEN "At least 2 players are required to start the game"
    ELSE IF PlayersWithoutRoles(r) # {} THEN "Not all players have selected roles"
    ELSE ""

\* "Initialize game state" of both start handlers
Started(r, puzzles) ==
    [r EXCEPT !.status = "in_progress", !.stage = 1, !.alert_level = 0,
              !.timer = DefaultTimer, !.puzzles = puzzles]

\* routes.py start_game; pid = "" is a request without player_id
StartHTTP(pid) ==
    /\ pid \in joined \cup {""}
    /\ IF ~Present(store)
       THEN /\ out' = {Err("http", "game_start", "Room not found")}
            /\ UNCHANGED <<store, timers>>
       ELSE IF pid # "" /\ pid \notin DOMAIN store.players
       THEN /\ out' = {Err("http", "game_start", "Player not found")}
            /\ UNCHANGED <<store, timers>>
       ELSE IF pid # "" /\ ~IsHost(store, pid)
       THEN /\ out' = {Err("http", "game_start", "Only the host can start the game")}
            /\ UNCHANGED <<store, timers>>
       ELSE IF StartError(store) # ""
       THEN /\ out' = {Err("http", "game_start", StartError(store))}
            /\ UNCHANGED <<store, timers>>
       ELSE /\ FreeTimers # {}
            /\ \E pz \in GeneratePuzzles(store, 1) : store' = Started(store, pz)
            /\ SpawnTimer
            /\ out' = {Bcast("game_started")}
    /\ UNCHANGED <<playerRec, conns, h, voteTimers, voteFin, joined, ticks,
                   nVotes, applied, nDrops>>
    /\ UNCHANGED <<edge, power, upkeep, relay>>

\* ------------------------------------------------- websocket_endpoint
\* a connect that sends the snapshot and the announcement every time
ConnectAlwaysGreets(p) ==
    /\ p \in joined
    /\ h[p].pc = "closed"
    /\ IF ~Present(store)
       THEN /\ out' = {Err(p, "connect", "Room not found")}
            /\ UNCHANGED <<store, playerRec, conns, h>>
       ELSE IF p \notin DOMAIN store.players
       THEN /\ out' = {Err(p, "connect", "Player not found")}
            /\ UNCHANGED <<store, playerRec, conns, h>>
       ELSE /\ conns' = conns \cup {p}
            /\ store' = [store EXCEPT !.players[p].connected = TRUE]
            /\ playerRec' = MarkConnection(p, "on")
            /\ h' = [h EXCEPT ![p] = Idle]
            /\ out' = {Msg("game_state", p, "", 0, 0, 0), Bcast("player_connected")}
    /\ UNCHANGED <<timers, voteTimers, voteFin, joined, ticks, nVotes, applied, nDrops>>
    /\ UNCHANGED <<edge, power, upkeep, relay>>

\* websocket.py websocket_endpoint, up to the message loop
Connect(p) ==
    /\ p \in joined
    /\ h[p].pc = "closed"
    /\ IF ~Present(store)
       THEN /\ out' = {Err(p, "connect", "Room not found")}
            /\ UNCHANGED <<store, playerRec, conns, h>>
       ELSE IF p \notin DOMAIN store.players
       THEN /\ out' = {Err(p, "connect", "Player not found")}
            /\ UNCHANGED <<store, playerRec, conns, h>>
       ELSE /\ conns' = conns \cup {p}
            /\ store' = [store EXCEPT !.players[p].connected = TRUE]
            /\ playerRec' = MarkConnection(p, "on")
            /\ h' = [h EXCEPT ![p] = Idle]
            /\ out' = IF store.players[p].connected THEN {}
                      ELSE {Msg("game_state", p, "", 0, 0, 0), Bcast("player_connected")}
    /\ UNCHANGED <<timers, voteTimers, voteFin, joined, ticks, nVotes, applied, nDrops>>
    /\ UNCHANGED <<edge, power, upkeep, relay>>

\* websocket.py handle_player_disconnect, up to its first broadcast; at most
\* cap disconnections in a run
DisconnectWithin(p, cap) ==
    /\ Receiving(p)
    /\ nDrops < cap
    /\ LET known == Present(store) /\ p \in DOMAIN store.players
           local == IF known THEN [store EXCEPT !.players[p].connected = FALSE]
                    ELSE store
       IN  /\ store' = local
           /\ playerRec' = IF known THEN MarkConnection(p, "off") ELSE playerRec
           /\ h' = [h EXCEPT ![p] =
                      IF ~Present(local) THEN Closed
                      ELSE IF local.status = "in_progress" /\ ConnectedCount(local) < 2
                      THEN Busy("dc_end", local)
                      ELSE IF local.status \in Terminal
                      THEN Busy("dc_over", NoRoom)
                      ELSE Closed]
    /\ conns' = conns \ {p}
    /\ nDrops' = nDrops + 1
    /\ out' = {Bcast("player_disconnected")}
    /\ UNCHANGED <<timers, voteTimers, voteFin, joined, ticks, nVotes, applied>>
    /\ UNCHANGED <<edge, power, upkeep, relay>>

Disconnect(p) == DisconnectWithin(p, MaxDrops)

\* handle_player_disconnect after the broadcast, in progress with fewer than
\* 2 connected players: mark the room loaded before the broadcast as failed
DisconnectEnd(p) ==
    /\ h[p].pc = "dc_end"
    /\ store' = [h[p].room EXCEPT !.status = "failed"]
    /\ out' = {Msg("game_over", "room", "insufficient_players",
                   ConnectedCount(h[p].room), 0, 0)}
    /\ h' = [h EXCEPT ![p] = Closed]
    /\ UNCHANGED <<playerRec, conns, timers, voteTimers, voteFin, joined, ticks,
                   nVotes, applied, nDrops>>
    /\ UNCHANGED <<edge, power, upkeep, relay>>

\* handle_player_disconnect after the broadcast, the game was over when the
\* room was loaded: delete everything when no player record is connected
DisconnectOver(p) ==
    /\ h[p].pc = "dc_over"
    /\ IF ConnectedRecs = {}
       THEN /\ store' = NoRoom
            /\ playerRec' = [q \in Ids |-> "absent"]
       ELSE UNCHANGED <<store, playerRec>>
    /\ out' = {}
    /\ h' = [h EXCEPT ![p] = Closed]
    /\ UNCHANGED <<conns, timers, voteTimers, voteFin, joined, ticks, nVotes,
                   applied, nDrops>>
    /\ UNCHANGED <<edge, power, upkeep, relay>>

\* a text frame that is valid JSON but not an object: message.get raises
\* AttributeError in process_websocket_message, the endpoint's
\* "except Exception" closes the socket and nothing else runs
BadMessage(p) ==
    /\ Receiving(p)
    /\ IF ~Present(store) THEN RoomNotFound(p) ELSE Crash(p)
    /\ UNCHANGED <<store, playerRec, conns, timers, voteTimers, voteFin, joined,
                   ticks, nVotes, applied, nDrops>>
    /\ UNCHANGED <<edge, power, upkeep, relay>>

\* ------------------------------------------- process_websocket_message
\* msg_type == "start_game"
StartWS(p) ==
    /\ Receiving(p)
    /\ IF ~Present(store)
       THEN /\ RoomNotFound(p)
            /\ UNCHANGED <<store, timers>>
       ELSE IF ~IsHost(store, p)
       THEN /\ Reject(p, "game_start", "Only the host can start the game")
            /\ UNCHANGED <<store, timers>>
       ELSE IF StartError(store) # ""
       THEN /\ Reject(p, "game_start", StartError(store))
            /\ UNCHANGED <<store, timers>>
       ELSE /\ FreeTimers # {}
            /\ \E pz \in GeneratePuzzles(store, 1) : store' = Started(store, pz)
            /\ SpawnTimer
            /\ out' = {Bcast("game_started")}
            /\ h' = h
    /\ UNCHANGED <<playerRec, conns, voteTimers, voteFin, joined, ticks, nVotes,
                   applied, nDrops>>
    /\ UNCHANGED <<edge, power, upkeep, relay>>

\* msg_type == "select_role"
SelectRoleWS(p, role) ==
    /\ Receiving(p)
    /\ IF ~Present(store)
       THEN /\ RoomNotFound(p)
            /\ store' = store
       ELSE IF role = ""
       THEN /\ Reject(p, "role_selection", "No role specified")
            /\ store' = store
       ELSE IF RoleTaken(store, p, role)
       THEN /\ Reject(p, "role_selection", "Role already taken")
            /\ store' = store
       ELSE /\ store' = IF p \in DOMAIN store.players
                        THEN [store EXCEPT !.players[p].role = role]
                        ELSE store
            /\ out' = {Bcast("role_confirmed")}
            /\ h' = h
    /\ UNCHANGED <<playerRec, conns, timers, voteTimers, voteFin, joined, ticks,
                   nVotes, applied, nDrops>>
    /\ UNCHANGED <<edge, power, upkeep, relay>>

\* a leave that only marks the sender disconnected and keeps it in the roster
LeaveMarksOnly(p) ==
    /\ Receiving(p)
    /\ IF ~Present(store)
       THEN /\ RoomNotFound(p)
            /\ UNCHANGED <<store, conns, playerRec>>
       ELSE /\ store' = IF p \in DOMAIN store.players
                        THEN [store EXCEPT !.players[p].connected = FALSE]
                        ELSE store
            /\ conns' = conns \ {p}
            /\ playerRec' = [playerRec EXCEPT ![p] = "absent"]
            /\ out' = {Bcast("player_left")}
            /\ h' = h
    /\ UNCHANGED <<timers, voteTimers, voteFin, joined, ticks, nVotes, applied, nDrops>>
    /\ UNCHANGED <<edge, power, upkeep, relay>>

\* msg_type == "leave_game", up to the player_left broadcast
Leave(p) ==
    /\ Receiving(p)
    /\ IF ~Present(store)
       THEN /\ RoomNotFound(p)
            /\ UNCHANGED <<store, conns, playerRec>>
       ELSE LET local == [store EXCEPT !.players = Without(@, p)]
                ends == local.status = "in_progress"
                        /\ Cardinality(DOMAIN local.players) < 2
            IN  /\ store' = local
                /\ conns' = conns \ {p}
                /\ playerRec' = [playerRec EXCEPT ![p] = "absent"]
                /\ out' = {Bcast("player_left")}
                /\ h' = [h EXCEPT ![p] = IF ends
                                         THEN Busy("lv_fin", local)
                                         ELSE Idle]
    /\ UNCHANGED <<timers, voteTimers, voteFin, joined, ticks, nVotes, applied, nDrops>>
    /\ UNCHANGED <<edge, power, upkeep, relay>>

\* leave_game after the broadcast: fewer than 2 players remain in progress
LeaveFinish(p) ==
    /\ h[p].pc = "lv_fin"
    /\ LET local == h[p].room
       IN  /\ store' = [local EXCEPT !.status = "failed"]
           /\ out' = {Msg("game_over", "room", "insufficient_players",
                          Cardinality(DOMAIN local.players), 0, 0)}
           /\ h' = [h EXCEPT ![p] = IF DOMAIN local.players = {}
                                    THEN Busy("lv_del", NoRoom)
                                    ELSE Idle]
    /\ UNCHANGED <<playerRec, conns, timers, voteTimers, voteFin, joined, ticks,
                   nVotes, applied, nDrops>>
    /\ UNCHANGED <<edge, power, upkeep, relay>>

\* leave_game: "If room is now empty, clean it up"
LeaveDelete(p) ==
    /\ h[p].pc = "lv_del"
    /\ store' = NoRoom
    /\ h' = [h EXCEPT ![p] = Idle]
    /\ out' = {}
    /\ UNCHANGED <<playerRec, conns, timers, voteTimers, voteFin, joined, ticks,
                   nVotes, applied, nDrops>>
    /\ UNCHANGED <<edge, power, upkeep, relay>>

\* ------------------------------------------------------ run_game_timer
\* a countdown that sends at every multiple of 5
SendsEveryFive(t) == t % 5 = 0 \/ t <= 10

\* should_send of run_game_timer
ShouldSend(t) == t % 15 = 0 \/ (t <= 30 /\ t % 5 = 0) \/ t <= 10

\* the loop head: reload the room, stop when expired or not in progress
TimerCheck(i) ==
    /\ timers[i].pc = "check"
    /\ timers' = [timers EXCEPT ![i] =
                    IF ~Present(store) \/ store.timer <= 0
                       \/ store.status # "in_progress"
                    THEN [@ EXCEPT !.pc = "done", !.room = NoRoom]
                    ELSE [@ EXCEPT !.pc = "sleep", !.room = store]]
    /\ out' = {}
    /\ UNCHANGED <<store, playerRec, conns, h, voteTimers, voteFin, joined, ticks,
                   nVotes, applied, nDrops>>
    /\ UNCHANGED <<edge, power, upkeep, relay>>

\* trigger_random_event, called when the timer is a multiple of 30: it only
\* broadcasts, and whether it does is a random draw
RandomEvents(t) ==
    IF t % EventPeriod = 0 THEN {{}, {Bcast("random_event")}} ELSE {{}}

\* after asyncio.sleep(1): decrement the room loaded before the sleep, store
TimerTick(i, cap) ==
    /\ timers[i].pc = "sleep"
    /\ ticks < cap
    /\ LET local == [timers[i].room EXCEPT !.timer = @ - 1]
       IN  /\ store' = local
           /\ \E event \in RandomEvents(local.timer) :
                  out' = event \cup (IF ShouldSend(local.timer)
                                     THEN {Msg("timer_update", "room", "", local.timer, 0, 0)}
                                     ELSE {})
           /\ timers' = [timers EXCEPT ![i] =
                           IF local.timer <= 0
                           THEN [@ EXCEPT !.pc = "over", !.room = local]
                           ELSE [@ EXCEPT !.pc = "check", !.room = NoRoom]]
    /\ ticks' = ticks + 1
    /\ UNCHANGED <<playerRec, conns, h, voteTimers, voteFin, joined, nVotes,
                   applied, nDrops>>
    /\ UNCHANGED <<edge, power, upkeep, relay>>

\* the expiry branch without "room.status = failed": the record keeps its status
TimerExpiredSilently(i) ==
    /\ timers[i].pc = "over"
    /\ store' = timers[i].room
    /\ out' = {Msg("game_over", "room", "time_expired", 0, 0, 0)}
    /\ timers' = [timers EXCEPT ![i] = [pc |-> "done", room |-> NoRoom,
                                         sent |-> @.sent + 1]]
    /\ UNCHANGED <<playerRec, conns, h, voteTimers, voteFin, joined, ticks,
                   nVotes, applied, nDrops>>
    /\ UNCHANGED <<edge, power, upkeep, relay>>

\* "Game over when timer runs out"
TimerGameOver(i) ==
    /\ timers[i].pc = "over"
    /\ store' = [timers[i].room EXCEPT !.status = "failed"]
    /\ out' = {Msg("game_over", "room", "time_expired", 0, 0, 0)}
    /\ timers' = [timers EXCEPT ![i] = [pc |-> "done", room |-> NoRoom,
                                         sent |-> @.sent + 1]]
    /\ UNCHANGED <<playerRec, conns, h, voteTimers, voteFin, joined, ticks,
                   nVotes, applied, nDrops>>
    /\ UNCHANGED <<edge, power, upkeep, relay>>

\* ------------------------------------------------------ puzzle_solution
BoolSolution(b) == [kind |-> "bool", success |-> b, completesStage |-> "absent"]
DictSolution(b, flag) == [kind |-> "dict", success |-> b, completesStage |-> flag]

Solutions == {BoolSolution(TRUE), BoolSolution(FALSE), DictSolution(FALSE, "absent"),
              DictSolution(TRUE, "true"), DictSolution(FALSE, "true")}

\* game_logic.py validate_puzzle_solution: a bool is returned as it is, a dict
\* with a success field gives that field
ValidatePuzzleSolution(puzzle, sol) == sol.success

\* the team branch: with completesStage the success field decides, without it
\* the truth value of the solution itself (a non-empty dict is true)
TeamSuccess(sol) ==
    IF sol.completesStage # "absent" THEN sol.success
    ELSE IF sol.kind = "dict" THEN TRUE
    ELSE sol.success

TeamFlag(sol) == sol.completesStage = "true"

\* all(p.get("completed") for p_id, p in puzzles.items() if p_id != "team")
AllIndividualCompleted(r) ==
    \A k \in DOMAIN r.puzzles \ {"team"} : r.puzzles[k].completed

\* all(p.get("completed") for p_id, p in puzzles.items())
AllCompleted(r) == \A k \in DOMAIN r.puzzles : r.puzzles[k].completed

TeamPending(r) == "team" \in DOMAIN r.puzzles /\ ~r.puzzles["team"].completed

\* the "Check if stage is complete" condition of the individual branch
IndividualAdvances(r) == AllIndividualCompleted(r) /\ ~TeamPending(r)

\* the conditions of the team branch
TeamAdvances(r, sol) ==
    TeamFlag(sol) \/ r.puzzles["team"].completes_stage \/ AllCompleted(r)

\* "Advance to next stage": every result of the random puzzle generation
Advances(r) ==
    LET s == r.stage + 1
    IN  IF s > LastStage
        THEN {[r EXCEPT !.stage = s, !.status = "completed"]}
        ELSE {[r EXCEPT !.stage = s, !.puzzles = pz, !.timer = @ + StageBonus] :
                 pz \in GeneratePuzzles(r, s)}

AdvanceOut(r) ==
    IF r.stage + 1 > LastStage THEN {Bcast("game_completed")}
    ELSE {Msg("stage_completed", "room", "", r.stage + 1, 0, 0)}

\* msg_type == "puzzle_solution", up to the puzzle_completed broadcast
PuzzleSolution(p, sol) ==
    /\ Receiving(p)
    /\ Present(store)
    /\ store.stage < MaxStage
    /\ IF p \in DOMAIN store.puzzles
       THEN IF ValidatePuzzleSolution(store.puzzles[p], sol)
            THEN LET local == [store EXCEPT !.puzzles[p].completed = TRUE]
                 IN  /\ store' = local
                     /\ out' = {Msg("puzzle_completed", "room", p, 0, 0, 0)}
                               \cup (IF AllIndividualCompleted(local) /\ TeamPending(local)
                                     THEN {Bcast("team_puzzle_ready")} ELSE {})
                     /\ h' = [h EXCEPT ![p] = IF IndividualAdvances(local)
                                              THEN [Busy("ps_adv", local) EXCEPT
                                                      !.again = store.puzzles[p].completed]
                                              ELSE Idle]
            ELSE /\ out' = {}
                 /\ UNCHANGED <<store, h>>
       ELSE IF "team" \in DOMAIN store.puzzles
       THEN IF TeamSuccess(sol)
            THEN LET local == [store EXCEPT !.puzzles["team"].completed = TRUE]
                 IN  /\ store' = local
                     /\ out' = {Msg("puzzle_completed", "room", "team", 0, 0, 0)}
                     /\ h' = [h EXCEPT ![p] = IF TeamAdvances(local, sol)
                                              THEN [Busy("ps_adv", local) EXCEPT
                                                      !.again = store.puzzles["team"].completed]
                                              ELSE Idle]
            ELSE /\ out' = {}
                 /\ UNCHANGED <<store, h>>
       ELSE /\ out' = {}
            /\ UNCHANGED <<store, h>>
    /\ UNCHANGED <<playerRec, conns, timers, voteTimers, voteFin, joined, ticks,
                   nVotes, applied, nDrops>>
    /\ UNCHANGED <<edge, power, upkeep, relay>>

\* puzzle_solution after its sends: advance the room loaded before them
PuzzleAdvance(p) ==
    /\ h[p].pc = "ps_adv"
    /\ \E next \in Advances(h[p].room) : store' = next
    /\ out' = AdvanceOut(h[p].room)
    /\ h' = [h EXCEPT ![p] = Idle]
    /\ UNCHANGED <<playerRec, conns, timers, voteTimers, voteFin, joined, ticks,
                   nVotes, applied, nDrops>>
    /\ UNCHANGED <<edge, power, upkeep, relay>>

\* msg_type == "action", action == "complete_stage"
CompleteStage(p, currentStage) ==
    /\ Receiving(p)
    /\ Present(store)
    /\ store.stage < MaxStage
    /\ IF ~IsHost(store, p)
       THEN /\ Reject(p, "complete_stage", "Only the host can complete the stage")
            /\ store' = store
       ELSE IF currentStage # store.stage
       THEN /\ Reject(p, "complete_stage", "Stage mismatch")
            /\ store' = store
       ELSE /\ \E next \in Advances(store) : store' = next
            /\ out' = AdvanceOut(store)
            /\ h' = h
    /\ UNCHANGED <<playerRec, conns, timers, voteTimers, voteFin, joined, ticks,
                   nVotes, applied, nDrops>>
    /\ UNCHANGED <<edge, power, upkeep, relay>>

\* ------------------------------------------------- timer-extension vote
VoteActive(r) == r.timer_vote_active

\* the check looking at the yes list only
VotedYes(r, p) == p \in Range(r.yes)

\* "Check if player already voted"
AlreadyVoted(r, p) == p \in Range(r.yes) \/ p \in Range(r.no)

Max(a, b) == IF a >= b THEN a ELSE b

\* half of the connected players instead of a majority of them
HalfVotes(c) == Max(1, c \div 2)

\* required_votes = max(1, connected_player_count // 2 + 1)
RequiredVotes(c) == Max(1, (c \div 2) + 1)

VoteSucceeds(r) == Len(r.yes) >= RequiredVotes(ConnectedCount(r))

\* process_timer_vote_result up to its first store
Resolved(r) ==
    IF VoteSucceeds(r)
    THEN [r EXCEPT !.timer_vote_active = FALSE, !.timer = @ + VoteBonus,
                   !.alert_level = @ + 1]
    ELSE [r EXCEPT !.timer_vote_active = FALSE]

\* "Clean up vote data in room": the last store of process_timer_vote_result
Cleared(r) == [r EXCEPT !.yes = <<>>, !.no = <<>>]

ResolveOut(r) ==
    {[type |-> "timer_vote_completed", to |-> "room", context |-> "",
      info |-> IF VoteSucceeds(r) THEN "success" ELSE "failed",
      a |-> RequiredVotes(ConnectedCount(r)), b |-> Len(r.yes), c |-> Len(r.no),
      d |-> ConnectedCount(r)]}
    \cup (IF VoteSucceeds(r)
          THEN {Msg("timer_extended", "room", "", r.timer + VoteBonus, r.alert_level + 1, 0)}
          ELSE {})

Applied(r) ==
    IF VoteSucceeds(r) THEN [applied EXCEPT ![r.vote_id] = @ + 1] ELSE applied

\* msg_type == "initiate_timer_vote"
InitiateVote(p) ==
    /\ Receiving(p)
    /\ IF ~Present(store)
       THEN /\ RoomNotFound(p)
            /\ UNCHANGED <<store, voteTimers, nVotes>>
       ELSE IF VoteActive(store)
       THEN /\ Reject(p, "timer_vote", "A timer extension vote is already in progress")
            /\ UNCHANGED <<store, voteTimers, nVotes>>
       ELSE /\ nVotes < MaxVotes
            /\ store' = [store EXCEPT !.timer_vote_active = TRUE, !.yes = <<>>,
                                      !.no = <<>>, !.timer_vote_initiator = p,
                                      !.vote_id = nVotes + 1]
            /\ nVotes' = nVotes + 1
            /\ voteTimers' = voteTimers + 1
            /\ out' = {Msg("timer_vote_initiated", "room", p, 0, 0, 0)}
            /\ h' = h
    /\ UNCHANGED <<playerRec, conns, timers, voteFin, joined, ticks, applied, nDrops>>
    /\ UNCHANGED <<edge, power, upkeep, relay>>

\* msg_type == "extend_timer_vote", up to the timer_vote_update broadcast
ExtendVote(p, vote) ==
    /\ Receiving(p)
    /\ IF ~Present(store)
       THEN /\ RoomNotFound(p)
            /\ store' = store
       ELSE IF ~VoteActive(store)
       THEN /\ Reject(p, "timer_vote", "No timer extension vote is currently active")
            /\ store' = store
       ELSE IF AlreadyVoted(store, p)
       THEN /\ Reject(p, "timer_vote", "You have already voted")
            /\ store' = store
       ELSE LET local == IF vote THEN [store EXCEPT !.yes = Append(@, p)]
                         ELSE [store EXCEPT !.no = Append(@, p)]
            IN  /\ store' = local
                /\ out' = {Msg("timer_vote_update", "room", p, 0, 0, 0)}
                /\ h' = [h EXCEPT ![p] =
                           IF Len(local.yes) + Len(local.no) >= ConnectedCount(local)
                           THEN Busy("vote_res", NoRoom)
                           ELSE Idle]
    /\ UNCHANGED <<playerRec, conns, timers, voteTimers, voteFin, joined, ticks,
                   nVotes, applied, nDrops>>
    /\ UNCHANGED <<edge, power, upkeep, relay>>

\* extend_timer_vote: "Everyone voted, process the result immediately";
\* process_timer_vote_result reloads the room and does not look at the flag
VoteResolve(p) ==
    /\ h[p].pc = "vote_res"
    /\ IF ~Present(store)
       THEN /\ h' = [h EXCEPT ![p] = Idle]
            /\ out' = {}
            /\ UNCHANGED <<store, applied>>
       ELSE /\ store' = Resolved(store)
            /\ applied' = Applied(store)
            /\ out' = ResolveOut(store)
            /\ h' = [h EXCEPT ![p] = Busy("vote_fin", Cleared(Resolved(store)))]
    /\ UNCHANGED <<playerRec, conns, timers, voteTimers, voteFin, joined, ticks,
                   nVotes, nDrops>>
    /\ UNCHANGED <<edge, power, upkeep, relay>>

\* process_timer_vote_result after its broadcasts, called by the last voter
VoteFinish(p) ==
    /\ h[p].pc = "vote_fin"
    /\ store' = h[p].room
    /\ h' = [h EXCEPT ![p] = Idle]
    /\ out' = {}
    /\ UNCHANGED <<playerRec, conns, timers, voteTimers, voteFin, joined, ticks,
                   nVotes, applied, nDrops>>
    /\ UNCHANGED <<edge, power, upkeep, relay>>

\* run_vote_timer: an iteration that finds no room or no active vote returns
VoteTimerStop ==
    /\ voteTimers > 0
    /\ ~(Present(store) /\ VoteActive(store))
    /\ voteTimers' = voteTimers - 1
    /\ out' = {}
    /\ UNCHANGED <<store, playerRec, conns, h, timers, voteFin, joined, ticks,
                   nVotes, applied, nDrops>>
    /\ UNCHANGED <<edge, power, upkeep, relay>>

\* run_vote_timer: the time limit has elapsed with the vote still active
VoteTimerExpire ==
    /\ voteTimers > 0
    /\ Present(store)
    /\ VoteActive(store)
    /\ voteTimers' = voteTimers - 1
    /\ store' = Resolved(store)
    /\ applied' = Applied(store)
    /\ out' = ResolveOut(store)
    /\ voteFin' = Append(voteFin, Cleared(Resolved(store)))
    /\ UNCHANGED <<playerRec, conns, h, timers, joined, ticks, nVotes, nDrops>>
    /\ UNCHANGED <<edge, power, upkeep, relay>>

\* process_timer_vote_result after its broadcasts, called by run_vote_timer
VoteTaskFinish(k) ==
    /\ k \in 1..Len(voteFin)
    /\ store' = voteFin[k]
    /\ voteFin' = SubSeq(voteFin, 1, k - 1) \o SubSeq(voteFin, k + 1, Len(voteFin))
    /\ out' = {}
    /\ UNCHANGED <<playerRec, conns, h, timers, voteTimers, joined, ticks, nVotes,
                   applied, nDrops>>
    /\ UNCHANGED <<edge, power, upkeep, relay>>

\* ------------------------------------------------------------ use_power
\* a task started by a power: the coroutine, where it is suspended, the
\* player it serves, the room it holds and the alert level before the use
\* that started it
Task(kind, pc, player, room, original_level) ==
    [kind |-> kind, pc |-> pc, player |-> player, room |-> room,
     original_level |-> original_level]

Finished(k) == [effects EXCEPT ![k].pc = "done", ![k].room = NoRoom]

\* handle_power_usage, role Hacker
HackerPower(r) ==
    [r EXCEPT !.timer = @ + HackerBonus,
              !.alert_level = IF @ > 0 THEN @ - 1 ELSE @]

\* handle_power_usage, role Safe Cracker
SafeCrackerPower(r, p) ==
    IF p \in DOMAIN r.puzzles
    THEN [r EXCEPT !.timer = @ + SafeCrackerBonus, !.puzzles[p].hint_active = TRUE]
    ELSE [r EXCEPT !.timer = @ + SafeCrackerBonus]

\* handle_power_usage, role Demolitions, where GameRoom takes the attributes
\* shortcuts and original_alert_level
DemolitionsPower(r) ==
    IF r.has_original_alert_level
    THEN [r EXCEPT !.timer = @ + DemolitionsBonus, !.shortcuts = @ + 1]
    ELSE [r EXCEPT !.timer = @ + DemolitionsBonus, !.shortcuts = @ + 1,
                   !.has_original_alert_level = TRUE,
                   !.original_alert_level = r.alert_level,
                   !.alert_level = Max(0, @ - DemolitionsCut)]

\* msg_type == "use_power": handle_power_usage, the store and the broadcast.
\* Where GameRoom takes no attribute that is not a field, the Demolitions
\* branch raises ValueError at "room.shortcuts = ..." before anything is
\* stored
UsePower(p) ==
    /\ Receiving(p)
    /\ nPowers < MaxPowers
    /\ nPowers' = nPowers + 1
    /\ IF ~Present(store)
       THEN /\ RoomNotFound(p)
            /\ UNCHANGED <<store, effects>>
       ELSE IF RoleOf(store, p) = "Hacker"
       THEN /\ store' = HackerPower(store)
            /\ out' = {Bcast("power_used")}
            /\ UNCHANGED <<h, effects>>
       ELSE IF RoleOf(store, p) = "Safe Cracker"
       THEN /\ store' = SafeCrackerPower(store, p)
            /\ out' = {Bcast("power_used")}
            /\ UNCHANGED <<h, effects>>
       ELSE IF RoleOf(store, p) = "Demolitions"
       THEN IF ~extra
            THEN /\ Crash(p)
                 /\ UNCHANGED <<store, effects>>
            ELSE /\ store' = DemolitionsPower(store)
                 /\ effects' = IF store.has_original_alert_level THEN effects
                                ELSE Append(effects,
                                            Task("restore_alert_level", "sleep", p,
                                                 NoRoom, store.alert_level))
                 /\ out' = {Bcast("power_used")}
                 /\ h' = h
       ELSE IF RoleOf(store, p) = "Lookout"
       THEN /\ store' = [store EXCEPT !.next_events_visible = TRUE]
            /\ effects' = Append(effects,
                                 Task("handle_lookout_power", "start", p, NoRoom, 0))
            /\ out' = {}
            /\ h' = h
       ELSE /\ out' = {}
            /\ UNCHANGED <<store, h, effects>>
    /\ UNCHANGED <<playerRec, conns, timers, voteTimers, voteFin, joined, ticks,
                   nVotes, applied, nDrops>>
    /\ UNCHANGED <<edge, extra, upkeep, relay>>

\* restore_alert_level after its sleep
RestoreAlertLevel(k) ==
    /\ k \in 1..Len(effects)
    /\ effects[k].kind = "restore_alert_level"
    /\ effects[k].pc = "sleep"
    /\ IF Present(store) /\ store.has_original_alert_level
       THEN /\ store' = [store EXCEPT !.alert_level = store.original_alert_level,
                                      !.has_original_alert_level = FALSE,
                                      !.original_alert_level = 0]
            /\ out' = {Bcast("system_message")}
       ELSE /\ store' = store
            /\ out' = {}
    /\ effects' = Finished(k)
    /\ UNCHANGED <<playerRec, conns, h, timers, voteTimers, voteFin, joined, ticks,
                   nVotes, applied, nDrops>>
    /\ UNCHANGED <<edge, nPowers, extra, upkeep, relay>>

\* handle_lookout_power up to its sends: load the room, predict, notify
LookoutStart(k) ==
    /\ k \in 1..Len(effects)
    /\ effects[k].kind = "handle_lookout_power"
    /\ effects[k].pc = "start"
    /\ IF ~Present(store) \/ effects[k].player \notin conns
       THEN /\ effects' = Finished(k)
            /\ out' = {}
       ELSE /\ effects' = [effects EXCEPT ![k].pc = "boost", ![k].room = store]
            /\ out' = {Msg("lookout_prediction", effects[k].player, "", 0, 0, 0),
                       Bcast("power_used")}
    /\ UNCHANGED <<store, playerRec, conns, h, timers, voteTimers, voteFin, joined,
                   ticks, nVotes, applied, nDrops>>
    /\ UNCHANGED <<edge, nPowers, extra, upkeep, relay>>

\* handle_lookout_power after its sends: "Add a status boost" to the room
\* loaded before them
LookoutBoost(k) ==
    /\ k \in 1..Len(effects)
    /\ effects[k].kind = "handle_lookout_power"
    /\ effects[k].pc = "boost"
    /\ IF effects[k].room.alert_level > 0
       THEN /\ store' = [effects[k].room EXCEPT !.alert_level = @ - 1]
            /\ effects' = Append([effects EXCEPT ![k].pc = "reset", ![k].room = NoRoom],
                                 Task("restore_lookout_effect", "sleep",
                                      effects[k].player, NoRoom,
                                      effects[k].room.alert_level))
       ELSE /\ store' = store
            /\ effects' = [effects EXCEPT ![k].pc = "reset", ![k].room = NoRoom]
    /\ out' = {}
    /\ UNCHANGED <<playerRec, conns, h, timers, voteTimers, voteFin, joined, ticks,
                   nVotes, applied, nDrops>>
    /\ UNCHANGED <<edge, nPowers, extra, upkeep, relay>>

\* reset_lookout_ability after its sleep
LookoutReset(k) ==
    /\ k \in 1..Len(effects)
    /\ effects[k].kind = "handle_lookout_power"
    /\ effects[k].pc = "reset"
    /\ store' = IF Present(store) THEN [store EXCEPT !.next_events_visible = FALSE]
                ELSE store
    /\ effects' = Finished(k)
    /\ out' = {}
    /\ UNCHANGED <<playerRec, conns, h, timers, voteTimers, voteFin, joined, ticks,
                   nVotes, applied, nDrops>>
    /\ UNCHANGED <<edge, nPowers, extra, upkeep, relay>>

\* restore_lookout_effect after its sleep
RestoreLookoutEffect(k) ==
    /\ k \in 1..Len(effects)
    /\ effects[k].kind = "restore_lookout_effect"
    /\ effects[k].pc = "sleep"
    /\ IF Present(store) /\ store.alert_level < effects[k].original_level
       THEN /\ store' = [store EXCEPT !.alert_level = effects[k].original_level]
            /\ out' = {Bcast("system_message")}
       ELSE /\ store' = store
            /\ out' = {}
    /\ effects' = Finished(k)
    /\ UNCHANGED <<playerRec, conns, h, timers, voteTimers, voteFin, joined, ticks,
                   nVotes, applied, nDrops>>
    /\ UNCHANGED <<edge, nPowers, extra, upkeep, relay>>

\* -------------------------------------------------- trigger_random_event
\* event_types of trigger_random_event, and the draw that gives no event
EventTypes == {"security_patrol", "camera_sweep", "system_check"}
Draws == EventTypes \cup {"none"}

\* a scheduler that warns whatever the record says
WarnsAlways(e) ==
    /\ scheduler.pc = "idle"
    /\ scheduler.calls < MaxEvents
    /\ IF ~Present(store) \/ e = "none"
       THEN /\ scheduler' = [scheduler EXCEPT !.event = "", !.warned = FALSE,
                                              !.calls = @ + 1]
            /\ out' = {}
       ELSE /\ scheduler' = [pc |-> "warned", event |-> e, warned |-> TRUE,
                             calls |-> scheduler.calls + 1]
            /\ out' = {Msg("lookout_warning", "room", e, 0, 0, 0)}
    /\ UNCHANGED <<store, playerRec, conns, h, timers, voteTimers, voteFin, joined,
                   ticks, nVotes, applied, nDrops>>
    /\ UNCHANGED <<edge, power, upkeep, room_connections, fanout, vote_timer>>

\* trigger_random_event up to its first broadcast: load the room, draw, and
\* with an event drawn either warn (next_events_visible) or send the event
EventStart(e) ==
    /\ scheduler.pc = "idle"
    /\ scheduler.calls < MaxEvents
    /\ IF ~Present(store) \/ e = "none"
       THEN /\ scheduler' = [scheduler EXCEPT !.event = "", !.warned = FALSE,
                                              !.calls = @ + 1]
            /\ out' = {}
       ELSE IF store.next_events_visible
       THEN /\ scheduler' = [pc |-> "warned", event |-> e, warned |-> TRUE,
                             calls |-> scheduler.calls + 1]
            /\ out' = {Msg("lookout_warning", "room", e, 0, 0, 0)}
       ELSE /\ scheduler' = [pc |-> "idle", event |-> e, warned |-> FALSE,
                             calls |-> scheduler.calls + 1]
            /\ out' = {Msg("random_event", "room", e, 0, 0, 0)}
    /\ UNCHANGED <<store, playerRec, conns, h, timers, voteTimers, voteFin, joined,
                   ticks, nVotes, applied, nDrops>>
    /\ UNCHANGED <<edge, power, upkeep, room_connections, fanout, vote_timer>>

\* trigger_random_event after the warning and its sleep: "Send the actual
\* event"
EventFire ==
    /\ scheduler.pc = "warned"
    /\ scheduler' = [scheduler EXCEPT !.pc = "idle"]
    /\ out' = {Msg("random_event", "room", scheduler.event, 0, 0, 0)}
    /\ UNCHANGED <<store, playerRec, conns, h, timers, voteTimers, voteFin, joined,
                   ticks, nVotes, applied, nDrops>>
    /\ UNCHANGED <<edge, power, upkeep, room_connections, fanout, vote_timer>>

\* ------------------------------------------------------- run_vote_timer
\* initiate_timer_vote with its task: store the new vote, broadcast it and
\* create the task run_vote_timer, which loads the room and takes
\* timer_vote_time_limit as its local time_remaining
InitiateTimerVote(p) ==
    /\ Receiving(p)
    /\ Present(store)
    /\ ~VoteActive(store)
    /\ nVotes < MaxBallots
    /\ store' = [store EXCEPT !.timer_vote_active = TRUE, !.yes = <<>>,
                              !.no = <<>>, !.timer_vote_initiator = p,
                              !.vote_id = nVotes + 1]
    /\ nVotes' = nVotes + 1
    /\ vote_timer' = [tasks |-> [vote_timer.tasks EXCEPT ![nVotes + 1] =
                                   [pc |-> "poll",
                                    time_remaining |-> timer_vote_time_limit,
                                    vote |-> nVotes + 1]],
                      elapsed |-> 0]
    /\ out' = {Msg("timer_vote_initiated", "room", p, 0, 0, 0)}
    /\ UNCHANGED <<playerRec, conns, h, timers, voteTimers, voteFin, joined, ticks,
                   applied, nDrops>>
    /\ UNCHANGED <<edge, power, upkeep, room_connections, fanout, scheduler>>

\* run_vote_timer, one pass of "while time_remaining > 0": reload the room,
\* return when it is gone or no vote is active, else sleep
VoteTimerPoll(i) ==
    /\ vote_timer.tasks[i].pc = "poll"
    /\ vote_timer.tasks[i].time_remaining > 0
    /\ vote_timer' = [vote_timer EXCEPT !.tasks[i] =
                         IF Present(store) /\ VoteActive(store)
                         THEN [@ EXCEPT !.pc = "sleep"]
                         ELSE VoteTaskOff]
    /\ out' = {}
    /\ UNCHANGED <<store, playerRec, conns, h, timers, voteTimers, voteFin, joined,
                   ticks, nVotes, applied, nDrops>>
    /\ UNCHANGED <<edge, power, upkeep, room_connections, fanout, scheduler>>

\* run_vote_timer after the loop: reload the room and, when a vote is active,
\* process_timer_vote_result up to its broadcast
VoteTimerTimeout(i) ==
    /\ vote_timer.tasks[i].pc = "poll"
    /\ vote_timer.tasks[i].time_remaining = 0
    /\ vote_timer' = [vote_timer EXCEPT !.tasks[i] = VoteTaskOff]
    /\ IF Present(store) /\ VoteActive(store)
       THEN /\ store' = Resolved(store)
            /\ applied' = Applied(store)
            /\ out' = ResolveOut(store)
            /\ voteFin' = Append(voteFin, Cleared(Resolved(store)))
       ELSE /\ out' = {}
            /\ UNCHANGED <<store, applied, voteFin>>
    /\ UNCHANGED <<playerRec, conns, h, timers, voteTimers, joined, ticks, nVotes,
                   nDrops>>
    /\ UNCHANGED <<edge, power, upkeep, room_connections, fanout, scheduler>>

\* one second passes once every task that can run has run: each
\* "await asyncio.sleep(1)" of run_vote_timer returns and
\* "time_remaining -= 1" follows
VoteTimerSecond ==
    /\ \A i \in 1..MaxBallots : vote_timer.tasks[i].pc \in {"off", "sleep"}
    /\ \E i \in 1..MaxBallots : vote_timer.tasks[i].pc = "sleep"
    /\ \A q \in Ids : h[q].pc \in {"idle", "closed"}
    /\ voteFin = <<>>
    /\ vote_timer' = [tasks |-> [i \in 1..MaxBallots |->
                                   IF vote_timer.tasks[i].pc = "sleep"
                                   THEN [vote_timer.tasks[i] EXCEPT
                                            !.pc = "poll", !.time_remaining = @ - 1]
                                   ELSE vote_timer.tasks[i]],
                      elapsed |-> vote_timer.elapsed + 1]
    /\ out' = {}
    /\ UNCHANGED <<store, playerRec, conns, h, timers, voteTimers, voteFin, joined,
                   ticks, nVotes, applied, nDrops>>
    /\ UNCHANGED <<edge, power, upkeep, room_connections, fanout, scheduler>>

\* --------------------------------------------------- broadcast_to_room
\* redis_client.py get_players_in_room: the set, or the roster when the set
\* is empty
GetPlayersInRoom ==
    IF room_connections # {} THEN room_connections
    ELSE IF Present(store) THEN DOMAIN store.players
    ELSE {}

\* send_text of the message to the connection registered for q
Delivery(q) == Msg("broadcast", q, "", 0, 0, 0)

\* broadcast_to_room up to its loop; x = "" is a call without
\* exclude_player_id
BroadcastStart(x) ==
    /\ fanout.pc \in {"idle", "done"}
    /\ room_connections' = GetPlayersInRoom
    /\ fanout' = IF GetPlayersInRoom = {}
                 THEN Fanout("done", {}, {}, x)
                 ELSE Fanout("sending", GetPlayersInRoom, GetPlayersInRoom, x)
    /\ out' = {}
    /\ UNCHANGED <<store, playerRec, conns, h, timers, voteTimers, voteFin, joined,
                   ticks, nVotes, applied, nDrops>>
    /\ UNCHANGED <<edge, power, upkeep, scheduler, vote_timer>>

\* a loop body that lets the exception of a failed send out of the call
BroadcastSendRaises(q, ok) ==
    /\ fanout.pc = "sending"
    /\ q \in fanout.todo
    /\ IF (fanout.exclude # "" /\ q = fanout.exclude) \/ q \notin conns
       THEN /\ out' = {}
            /\ fanout' = [fanout EXCEPT !.todo = @ \ {q}, !.visited = @ \cup {q}]
       ELSE IF ok
       THEN /\ out' = {Delivery(q)}
            /\ fanout' = [fanout EXCEPT !.todo = @ \ {q}, !.visited = @ \cup {q},
                                        !.sent_count = @ + 1]
       ELSE /\ out' = {}
            /\ fanout' = [fanout EXCEPT !.pc = "raised"]
    /\ conns' = conns
    /\ UNCHANGED <<store, playerRec, h, timers, voteTimers, voteFin, joined,
                   ticks, nVotes, applied, nDrops>>
    /\ UNCHANGED <<edge, power, upkeep, room_connections, scheduler, vote_timer>>

\* one pass of the loop "for player_id in player_ids": the next id is q and
\* its send succeeds or raises
BroadcastSend(q, ok) ==
    /\ fanout.pc = "sending"
    /\ q \in fanout.todo
    /\ IF (fanout.exclude # "" /\ q = fanout.exclude) \/ q \notin conns
       THEN /\ out' = {}
            /\ conns' = conns
            /\ fanout' = [fanout EXCEPT !.todo = @ \ {q}, !.visited = @ \cup {q}]
       ELSE IF ok
       THEN /\ out' = {Delivery(q)}
            /\ conns' = conns
            /\ fanout' = [fanout EXCEPT !.todo = @ \ {q}, !.visited = @ \cup {q},
                                        !.sent_count = @ + 1]
       ELSE /\ out' = {}
            /\ conns' = conns \ {q}
            /\ fanout' = [fanout EXCEPT !.todo = @ \ {q}, !.visited = @ \cup {q}]
    /\ UNCHANGED <<store, playerRec, h, timers, voteTimers, voteFin, joined,
                   ticks, nVotes, applied, nDrops>>
    /\ UNCHANGED <<edge, power, upkeep, room_connections, scheduler, vote_timer>>

\* "return sent_count"
BroadcastReturn ==
    /\ fanout.pc = "sending"
    /\ fanout.todo = {}
    /\ fanout' = [fanout EXCEPT !.pc = "done"]
    /\ out' = {}
    /\ UNCHANGED <<store, playerRec, conns, h, timers, voteTimers, voteFin, joined,
                   ticks, nVotes, applied, nDrops>>
    /\ UNCHANGED <<edge, power, upkeep, room_connections, scheduler, vote_timer>>

\* ------------------------------------------- connection limits and rate
\* websocket.close(code=status.WS_1008_POLICY_VIOLATION) to an address
PolicyClose(a) == Msg("close", a, "WS_1008_POLICY_VIOLATION", 0, 0, 0)

\* "Remove old connection timestamps (older than 1 second)"
Recent(times, t) == SelectSeq(times, LAMBDA x : t - x < TicksPerSecond)

\* the entry of a counter after "-= 1" and the deletion of an entry that is
\* not positive; a missing entry of a defaultdict(int) reads as 0
Released(n) == IF n - 1 <= 0 THEN 0 ELSE n - 1

\* an endpoint call that checks nothing before it counts the connection
AttemptUnchecked(a, c) ==
    /\ Len(Recent(admitted[a], loop_time)) < MaxBurst
    /\ connection_times_by_ip' =
          [connection_times_by_ip EXCEPT
              ![a] = Append(Recent(@, loop_time), loop_time)]
    /\ connections_by_ip' = [connections_by_ip EXCEPT ![a] = @ + 1]
    /\ connections_by_room' = [connections_by_room EXCEPT ![c] = @ + 1]
    /\ handlers' = [handlers EXCEPT ![a, c] = @ + 1]
    /\ admitted' = [admitted EXCEPT ![a] = Append(Recent(@, loop_time), loop_time)]
    /\ out' = {}
    /\ UNCHANGED <<store, playerRec, conns, h, timers, voteTimers, voteFin, joined,
                   ticks, nVotes, applied, nDrops>>
    /\ UNCHANGED <<loop_time, power, upkeep, relay>>

\* websocket_endpoint under connection_lock: a connection attempt from
\* address a for room code c
Attempt(a, c) ==
    /\ Len(Recent(admitted[a], loop_time)) < MaxBurst
    /\ IF connections_by_ip[a] >= MAX_CONNECTIONS_PER_IP
       THEN /\ out' = {PolicyClose(a)}
            /\ UNCHANGED <<connections_by_ip, connections_by_room,
                           connection_times_by_ip, handlers, admitted>>
       ELSE IF connections_by_room[c] >= MAX_CONNECTIONS_PER_ROOM
       THEN /\ out' = {PolicyClose(a)}
            /\ UNCHANGED <<connections_by_ip, connections_by_room,
                           connection_times_by_ip, handlers, admitted>>
       ELSE IF Len(Recent(connection_times_by_ip[a], loop_time)) >= CONNECTION_RATE_LIMIT
       THEN /\ out' = {PolicyClose(a)}
            /\ connection_times_by_ip' =
                  [connection_times_by_ip EXCEPT ![a] = Recent(@, loop_time)]
            /\ UNCHANGED <<connections_by_ip, connections_by_room, handlers, admitted>>
       ELSE /\ connection_times_by_ip' =
                  [connection_times_by_ip EXCEPT
                      ![a] = Append(Recent(@, loop_time), loop_time)]
            /\ connections_by_ip' = [connections_by_ip EXCEPT ![a] = @ + 1]
            /\ connections_by_room' = [connections_by_room EXCEPT ![c] = @ + 1]
            /\ handlers' = [handlers EXCEPT ![a, c] = @ + 1]
            /\ admitted' = [admitted EXCEPT
                               ![a] = Append(Recent(@, loop_time), loop_time)]
            /\ out' = {}
    /\ UNCHANGED <<store, playerRec, conns, h, timers, voteTimers, voteFin, joined,
                   ticks, nVotes, applied, nDrops>>
    /\ UNCHANGED <<loop_time, power, upkeep, relay>>

\* the finally block of websocket_endpoint: an admitted call returns, for
\* whatever reason
HandlerEnds(a, c) ==
    /\ handlers[a, c] > 0
    /\ handlers' = [handlers EXCEPT ![a, c] = @ - 1]
    /\ connections_by_ip' = [connections_by_ip EXCEPT ![a] = Released(@)]
    /\ connection_times_by_ip' =
          [connection_times_by_ip EXCEPT
              ![a] = IF connections_by_ip[a] - 1 <= 0 THEN <<>> ELSE @]
    /\ connections_by_room' = [connections_by_room EXCEPT ![c] = Released(@)]
    /\ out' = {}
    /\ UNCHANGED <<store, playerRec, conns, h, timers, voteTimers, voteFin, joined,
                   ticks, nVotes, applied, nDrops>>
    /\ UNCHANGED <<loop_time, admitted, power, upkeep, relay>>

\* asyncio.get_event_loop().time() moves on by one tick
Advance ==
    /\ loop_time < MaxLoopTime
    /\ loop_time' = loop_time + 1
    /\ admitted' = [a \in Addresses |-> Recent(admitted[a], loop_time + 1)]
    /\ out' = {}
    /\ UNCHANGED <<store, playerRec, conns, h, timers, voteTimers, voteFin, joined,
                   ticks, nVotes, applied, nDrops>>
    /\ UNCHANGED <<connections_by_ip, connections_by_room, connection_times_by_ip,
                   handlers, power, upkeep, relay>>

\* ------------------------------------------------- room cleanup sweeps
Ended(r) == r.status \in {"completed", "failed"}

\* cleanup_room_if_ended: no player of the record is marked connected
AllDisconnected(r) == \A q \in DOMAIN r.players : ~r.players[q].connected

\* a threshold that is reached instead of passed
IdleAtLeast(t) == t >= MAX_ROOM_IDLE_TIME

\* "if time_inactive > MAX_ROOM_IDLE_TIME"
IdleTooLong(t) == t > MAX_ROOM_IDLE_TIME

\* the pipeline that deletes the room, its connection set and, for every
\* player of the record, the player's data and room keys
DeleteRoomAndPlayers ==
    /\ store' = NoRoom
    /\ playerRec' = [q \in Ids |-> IF q \in DOMAIN store.players THEN "absent"
                                   ELSE playerRec[q]]
    /\ room_connections' = {}

\* delete_room_data: the room and its connection set; player data is kept
DeleteRoomData ==
    /\ store' = NoRoom
    /\ room_connections' = {}
    /\ playerRec' = playerRec

\* cleanup_room_if_ended
CleanupRoomIfEnded ==
    IF Present(store) /\ Ended(store) /\ AllDisconnected(store)
    THEN DeleteRoomAndPlayers
    ELSE UNCHANGED <<store, playerRec, room_connections>>

\* store_room_data by any handler: the record it was given, stamped with the
\* current time
StoreRoomData(r) ==
    /\ Present(store)
    /\ store' = r
    /\ last_activity' = now
    /\ playerRec' = [q \in Ids |-> IF q \notin DOMAIN r.players THEN playerRec[q]
                                   ELSE IF r.players[q].connected THEN "on"
                                   ELSE "off"]
    /\ UNCHANGED <<conns, h, timers, voteTimers, voteFin, joined, ticks, nVotes,
                   applied, nDrops, out>>
    /\ UNCHANGED <<edge, power, now, record, resaves, relay>>

\* one pass of cleanup_inactive_rooms over the room
SweepRoom ==
    /\ Present(store)
    /\ IF IdleTooLong(now - last_activity)
       THEN DeleteRoomAndPlayers
       ELSE IF Ended(store)
       THEN CleanupRoomIfEnded
       ELSE IF store.status = "waiting" /\ DOMAIN store.players = {}
       THEN DeleteRoomData
       ELSE UNCHANGED <<store, playerRec, room_connections>>
    /\ UNCHANGED <<conns, h, timers, voteTimers, voteFin, joined, ticks, nVotes,
                   applied, nDrops, out>>
    /\ UNCHANGED <<edge, power, upkeep, fanout, scheduler, vote_timer>>

\* cleanup_if_no_players_connected after its sleep: it looks for "connected"
\* in the (id, player) pairs of items(), finds it in none and so always goes
\* on to cleanup_room_if_ended
CleanupIfNoPlayersConnected ==
    /\ Present(store)
    /\ CleanupRoomIfEnded
    /\ UNCHANGED <<conns, h, timers, voteTimers, voteFin, joined, ticks, nVotes,
                   applied, nDrops, out>>
    /\ UNCHANGED <<edge, power, upkeep, fanout, scheduler, vote_timer>>

\* "await asyncio.sleep(600)": the time between two passes goes by
Sleep ==
    /\ now < MaxPeriods * SweepPeriod
    /\ now' = now + SweepPeriod
    /\ UNCHANGED <<game, edge, power, last_activity, record, resaves, relay>>

\* ------------------------------------- store_room_data / get_room_data
\* str(room.stage)
StageKeys == <<"0", "1", "2", "3", "4", "5">>
StageKey(n) == StageKeys[n + 1]

\* the room as the GameRoom model holds it: the fields of the round trip
RoomModel(players, puzzles, stage_completion, stage, status) ==
    [players |-> players, puzzles |-> puzzles,
     stage_completion |-> stage_completion, stage |-> stage, status |-> status]

\* Player.dict(): the fields of the model by name
PlayerDict(pl) ==
    [role |-> pl.role, connected |-> pl.connected, is_host |-> pl.is_host]

\* a Player built from the defaults of the model, whatever the record says
PlayerFromDefaults(d) == Player(d.role, TRUE, FALSE)

\* Player(**data): the fields of the record by name, the defaults of the
\* model for those it lacks, any other key dropped
PlayerFrom(d) ==
    Player(d.role,
           IF "connected" \in DOMAIN d THEN d.connected ELSE TRUE,
           IF "is_host" \in DOMAIN d THEN d.is_host ELSE FALSE)

\* room.dict(), the stamp of store_room_data and json.dumps
Serialized(m, stamp) ==
    [players |-> [q \in DOMAIN m.players |-> PlayerDict(m.players[q])],
     puzzles |-> m.puzzles,
     stage_completion |-> m.stage_completion,
     stage |-> m.stage, status |-> m.status,
     last_activity |-> stamp]

\* json.loads and GameRoom(**room_data): every player record becomes a
\* Player, stage_completion a map of maps of booleans, puzzles stay the plain
\* dict they are, and last_activity, which is no field, is dropped
Loaded(rec) ==
    RoomModel([q \in DOMAIN rec.players |-> PlayerFrom(rec.players[q])],
              rec.puzzles,
              [k \in DOMAIN rec.stage_completion |->
                  [q \in DOMAIN rec.stage_completion[k] |->
                      rec.stage_completion[k][q] = TRUE]],
              rec.stage, rec.status)

\* a handler that loads the room and stores it without a change that
\* touches the roster, the puzzles or the completion map
Resave ==
    /\ record # EmptyMap
    /\ resaves < MaxResaves
    /\ record' = Serialized(Loaded(record), now)
    /\ resaves' = resaves + 1
    /\ UNCHANGED <<game, edge, power, last_activity, now, relay>>

\* puzzle_solution with a valid solution, as far as the record goes: the
\* puzzle is marked completed and the player entered under str(room.stage)
SolveAndStore(p) ==
    /\ record # EmptyMap
    /\ record.status = "in_progress"
    /\ p \in DOMAIN record.puzzles
    /\ LET m == Loaded(record)
           key == StageKey(m.stage)
           row == IF key \in DOMAIN m.stage_completion THEN m.stage_completion[key]
                  ELSE EmptyMap
       IN  record' = Serialized(
               [m EXCEPT !.puzzles[p].completed = TRUE,
                         !.stage_completion =
                             (key :> ((p :> TRUE) @@ row)) @@ m.stage_completion],
               now)
    /\ resaves' = 0
    /\ UNCHANGED <<game, edge, power, last_activity, now, relay>>

\* handle_player_disconnect and the reconnection, as far as the record goes
MarkAndStore(p, flag) ==
    /\ record # EmptyMap
    /\ p \in DOMAIN record.players
    /\ record' = Serialized([Loaded(record) EXCEPT !.players[p].connected = flag], now)
    /\ resaves' = 0
    /\ UNCHANGED <<game, edge, power, last_activity, now, relay>>

\* ------------------------------------------------------- specifications
TimerNext ==
    \/ \E i \in 1..MaxTimers : TimerCheck(i)
    \/ \E i \in 1..MaxTimers : TimerTick(i, MaxTicks)

ConnectionNext ==
    \/ \E p \in Ids : Connect(p)
    \/ \E p \in Ids : Disconnect(p)
    \/ \E p \in Ids : DisconnectEnd(p)
    \/ \E p \in Ids : DisconnectOver(p)

LeaveNext ==
    \/ \E p \in Ids : Leave(p)
    \/ \E p \in Ids : LeaveFinish(p)
    \/ \E p \in Ids : LeaveDelete(p)

\* the lobby, from the creation of the room by its host
Next ==
    \/ \E p \in Ids : Join(p)
    \/ \E p \in Ids, role \in RoleInputs : SelectRoleHTTP(p, role)
    \/ \E p \in Ids, role \in RoleInputs : SelectRoleWS(p, role)
    \/ \E pid \in Ids \cup {""} : StartHTTP(pid)
    \/ \E p \in Ids : StartWS(p)
    \/ LeaveNext
    \/ ConnectionNext
    \/ TimerNext

Spec == Init /\ [][Next]_vars

\* a game in progress: the state after two players joined, connected, took
\* their roles and the host started the game
Roster ==
    (Host :> Player("Hacker", TRUE, TRUE)) @@ ("p2" :> Player("Safe Cracker", TRUE, FALSE))

\* a room with both players of Roster connected and its countdown task started
Running(rooms) ==
    /\ store \in rooms
    /\ playerRec = [q \in Ids |-> IF q \in DOMAIN Roster THEN "on" ELSE "absent"]
    /\ conns = DOMAIN Roster
    /\ h = [q \in Ids |-> IF q \in DOMAIN Roster THEN Idle ELSE Closed]
    /\ timers = [i \in 1..MaxTimers |->
                   IF i = 1 THEN [pc |-> "check", room |-> NoRoom, sent |-> 0]
                   ELSE TimerOff]
    /\ voteTimers = 0
    /\ voteFin = <<>>
    /\ joined = DOMAIN Roster
    /\ ticks = 0
    /\ nVotes = 0
    /\ applied = [k \in 0..MaxVotes |-> 0]
    /\ nDrops = 0
    /\ out = {}
    /\ NoEdge
    /\ NoPower
    /\ NoUpkeep
    /\ NoRelay

InitGame ==
    Running({Started(GameRoom(Roster), pz) : pz \in GeneratePuzzles(GameRoom(Roster), 1)})

\* the puzzle and stage handlers against the countdown
NextGame ==
    \/ \E p \in Ids, sol \in Solutions : PuzzleSolution(p, sol)
    \/ \E p \in Ids : PuzzleAdvance(p)
    \/ \E p \in Ids, s \in 0..MaxStage : CompleteStage(p, s)
    \/ TimerNext

SpecGame == InitGame /\ [][NextGame]_vars

\* the vote handlers and tasks against connections, disconnections and leaves
NextVote ==
    \/ \E p \in Ids : InitiateVote(p)
    \/ \E p \in Ids, vote \in BOOLEAN : ExtendVote(p, vote)
    \/ \E p \in Ids : VoteResolve(p)
    \/ \E p \in Ids : VoteFinish(p)
    \/ VoteTimerStop
    \/ VoteTimerExpire
    \/ \E k \in 1..MaxVotes : VoteTaskFinish(k)
    \/ LeaveNext
    \/ ConnectionNext

SpecVote == InitGame /\ [][NextVote]_vars

\* the countdown alone: a game in progress at some stage with N seconds left
\* and no client; the event loop keeps running the task
CountdownRooms ==
    UNION {{[Started(GameRoom(Roster), pz) EXCEPT !.stage = s, !.timer = n] :
               pz \in GeneratePuzzles(GameRoom(Roster), s)} :
              s \in 1..LastStage, n \in 1..MaxCountdown}

InitCountdown == Running(CountdownRooms)

NextCountdown ==
    \/ \E i \in 1..MaxTimers : TimerCheck(i)
    \/ \E i \in 1..MaxTimers : TimerTick(i, MaxCountdown)
    \/ \E i \in 1..MaxTimers : TimerGameOver(i)

SpecCountdown == InitCountdown /\ [][NextCountdown]_vars /\ WF_vars(NextCountdown)

\* the tally: five players in the lobby, any of them connected, an open vote
\* with any yes and no lists, and the vote timer about to run out
TallyRooms ==
    {[GameRoom([q \in Ids |-> Player("", q \in on, q = Host)]) EXCEPT
         !.timer_vote_active = TRUE, !.timer_vote_initiator = Host, !.vote_id = 1,
         !.yes = SeqOf(Y), !.no = SeqOf(N)] :
       on \in SUBSET Ids, Y \in SUBSET Ids, N \in SUBSET Ids}

InitTally ==
    /\ store \in {r \in TallyRooms : Range(r.yes) \cap Range(r.no) = {}}
    /\ playerRec = [q \in Ids |-> IF store.players[q].connected THEN "on" ELSE "off"]
    /\ conns = {q \in Ids : store.players[q].connected}
    /\ h = [q \in Ids |-> IF store.players[q].connected THEN Idle ELSE Closed]
    /\ timers = [i \in 1..MaxTimers |-> TimerOff]
    /\ voteTimers = 1
    /\ voteFin = <<>>
    /\ joined = Ids
    /\ ticks = 0
    /\ nVotes = 1
    /\ applied = [k \in 0..MaxVotes |-> 0]
    /\ nDrops = 0
    /\ out = {}
    /\ NoEdge
    /\ NoPower
    /\ NoUpkeep
    /\ NoRelay

NextTally ==
    \/ VoteTimerExpire
    \/ \E k \in 1..MaxVotes : VoteTaskFinish(k)

SpecTally == InitTally /\ [][NextTally]_vars

\* three players in a game in progress dropping their connections one after
\* the other, against reconnections and the countdown
Trio ==
    Roster @@ ("p3" :> Player("Demolitions", TRUE, FALSE))

InitDrop ==
    /\ store \in {Started(GameRoom(Trio), pz) : pz \in GeneratePuzzles(GameRoom(Trio), 1)}
    /\ playerRec = [q \in Ids |-> IF q \in DOMAIN Trio THEN "on" ELSE "absent"]
    /\ conns = DOMAIN Trio
    /\ h = [q \in Ids |-> IF q \in DOMAIN Trio THEN Idle ELSE Closed]
    /\ timers = [i \in 1..MaxTimers |->
                   IF i = 1 THEN [pc |-> "check", room |-> NoRoom, sent |-> 0]
                   ELSE TimerOff]
    /\ voteTimers = 0
    /\ voteFin = <<>>
    /\ joined = DOMAIN Trio
    /\ ticks = 0
    /\ nVotes = 0
    /\ applied = [k \in 0..MaxVotes |-> 0]
    /\ nDrops = 0
    /\ out = {}
    /\ NoEdge
    /\ NoPower
    /\ NoUpkeep
    /\ NoRelay

NextDrop ==
    \/ \E p \in Ids : Connect(p)
    \/ \E p \in Ids : DisconnectWithin(p, MaxSeqDrops)
    \/ \E p \in Ids : DisconnectEnd(p)
    \/ \E p \in Ids : DisconnectOver(p)
    \/ TimerNext

SpecDrop == InitDrop /\ [][NextDrop]_vars

\* the same three players, whose clients may also send a frame the server
\* cannot process
NextHandler ==
    \/ \E p \in Ids : Connect(p)
    \/ \E p \in Ids : DisconnectWithin(p, MaxSeqDrops)
    \/ \E p \in Ids : DisconnectEnd(p)
    \/ \E p \in Ids : DisconnectOver(p)
    \/ \E p \in Ids : BadMessage(p)
    \/ TimerNext

SpecHandler == InitDrop /\ [][NextHandler]_vars

\* connection attempts from the addresses for the room codes, handlers that
\* return and the clock, from a server that has just started
NextLimits ==
    \/ \E a \in Addresses, c \in RoomCodes : Attempt(a, c)
    \/ \E a \in Addresses, c \in RoomCodes : HandlerEnds(a, c)
    \/ Advance

SpecLimits == Init /\ [][NextLimits]_vars

\* broadcasts to the three players of a game in progress, any of them
\* connected and any of them in the set of the room, against connections
\* and disconnections between two sends
InitRelay ==
    /\ store \in {Started(GameRoom([q \in DOMAIN Trio |->
                                       [Trio[q] EXCEPT !.connected = q \in on]]), pz) :
                      on \in SUBSET DOMAIN Trio,
                      pz \in GeneratePuzzles(GameRoom(Trio), 1)}
    /\ conns = {q \in DOMAIN Trio : store.players[q].connected}
    /\ playerRec = [q \in Ids |-> IF q \in conns THEN "on"
                                   ELSE IF q \in DOMAIN Trio THEN "off"
                                   ELSE "absent"]
    /\ h = [q \in Ids |-> IF q \in conns THEN Idle ELSE Closed]
    /\ timers = [i \in 1..MaxTimers |-> TimerOff]
    /\ voteTimers = 0
    /\ voteFin = <<>>
    /\ joined = DOMAIN Trio
    /\ ticks = 0
    /\ nVotes = 0
    /\ applied = [k \in 0..MaxVotes |-> 0]
    /\ nDrops = 0
    /\ out = {}
    /\ NoEdge
    /\ NoPower
    /\ NoUpkeep
    /\ room_connections \in SUBSET DOMAIN Trio
    /\ fanout = NoFanout
    /\ scheduler = NoEvent
    /\ vote_timer = NoVoteTimer

NextRelay ==
    \/ \E x \in DOMAIN Trio \cup {""} : BroadcastStart(x)
    \/ \E q \in Ids, ok \in BOOLEAN : BroadcastSend(q, ok)
    \/ BroadcastReturn
    \/ \E p \in Ids : Connect(p)
    \/ \E p \in Ids : DisconnectWithin(p, MaxDrops)

SpecRelay == InitRelay /\ [][NextRelay]_vars

\* the four roles in a game in progress with one second left, at any alert
\* level, a vote open whose time limit is about to elapse, with either
\* behaviour of GameRoom towards attributes that are not fields: the powers
\* and their tasks against the countdown and the vote result
Quartet ==
    Trio @@ ("p4" :> Player("Lookout", TRUE, FALSE))

PowerRooms ==
    {[Started(GameRoom(Quartet), pz) EXCEPT
         !.timer = 1, !.alert_level = a, !.timer_vote_active = TRUE,
         !.timer_vote_initiator = Host, !.vote_id = 1, !.yes = SeqOf(Y)] :
       pz \in GeneratePuzzles(GameRoom(Quartet), 1), a \in 0..MaxAlert,
       Y \in {{}, DOMAIN Quartet}}

InitPower ==
    /\ store \in PowerRooms
    /\ playerRec = [q \in Ids |-> IF q \in DOMAIN Quartet THEN "on" ELSE "absent"]
    /\ conns = DOMAIN Quartet
    /\ h = [q \in Ids |-> IF q \in DOMAIN Quartet THEN Idle ELSE Closed]
    /\ timers = [i \in 1..MaxTimers |->
                   IF i = 1 THEN [pc |-> "check", room |-> NoRoom, sent |-> 0]
                   ELSE TimerOff]
    /\ voteTimers = 1
    /\ voteFin = <<>>
    /\ joined = DOMAIN Quartet
    /\ ticks = 0
    /\ nVotes = 1
    /\ applied = [k \in 0..MaxVotes |-> 0]
    /\ nDrops = 0
    /\ out = {}
    /\ NoEdge
    /\ effects = <<>>
    /\ nPowers = 0
    /\ extra \in BOOLEAN
    /\ NoUpkeep
    /\ NoRelay

NextPower ==
    \/ \E p \in Ids : UsePower(p)
    \/ \E k \in 1..(2 * MaxPowers) : RestoreAlertLevel(k)
    \/ \E k \in 1..(2 * MaxPowers) : LookoutStart(k)
    \/ \E k \in 1..(2 * MaxPowers) : LookoutBoost(k)
    \/ \E k \in 1..(2 * MaxPowers) : LookoutReset(k)
    \/ \E k \in 1..(2 * MaxPowers) : RestoreLookoutEffect(k)
    \/ \E i \in 1..MaxTimers : TimerCheck(i)
    \/ \E i \in 1..MaxTimers : TimerTick(i, MaxTicks)
    \/ \E i \in 1..MaxTimers : TimerGameOver(i)
    \/ VoteTimerExpire
    \/ \E k \in 1..MaxVotes : VoteTaskFinish(k)

SpecPower == InitPower /\ [][NextPower]_vars

\* the powers and their tasks against players that drop their connection
NextLookout ==
    \/ \E p \in Ids : UsePower(p)
    \/ \E k \in 1..(2 * MaxPowers) : LookoutStart(k)
    \/ \E k \in 1..(2 * MaxPowers) : LookoutBoost(k)
    \/ \E k \in 1..(2 * MaxPowers) : LookoutReset(k)
    \/ \E k \in 1..(2 * MaxPowers) : RestoreLookoutEffect(k)
    \/ \E k \in 1..(2 * MaxPowers) : RestoreAlertLevel(k)
    \/ \E p \in Ids : DisconnectWithin(p, MaxDrops)

SpecLookout == InitPower /\ [][NextLookout]_vars

\* the event scheduler against the Lookout power and its reset
NextEvents ==
    \/ \E p \in Ids : UsePower(p)
    \/ \E k \in 1..(2 * MaxPowers) : LookoutStart(k)
    \/ \E k \in 1..(2 * MaxPowers) : LookoutBoost(k)
    \/ \E k \in 1..(2 * MaxPowers) : LookoutReset(k)
    \/ \E e \in Draws : EventStart(e)
    \/ EventFire

SpecEvents == InitPower /\ [][NextEvents]_vars

\* the vote timers against the votes of the players, with the seconds counted
NextVoteTimer ==
    \/ \E p \in Ids : InitiateTimerVote(p)
    \/ \E p \in Ids, vote \in BOOLEAN : ExtendVote(p, vote)
    \/ \E p \in Ids : VoteResolve(p)
    \/ \E p \in Ids : VoteFinish(p)
    \/ \E i \in 1..MaxBallots : VoteTimerPoll(i)
    \/ \E i \in 1..MaxBallots : VoteTimerTimeout(i)
    \/ \E k \in 1..MaxBallots : VoteTaskFinish(k)
    \/ VoteTimerSecond

SpecVoteTimer == InitGame /\ [][NextVoteTimer]_vars

\* the countdown from any number of seconds across the three sending rates
UpdateRooms ==
    {[Started(GameRoom(Roster), pz) EXCEPT !.timer = n] :
        pz \in GeneratePuzzles(GameRoom(Roster), 1), n \in 1..MaxSeconds}

InitUpdates == Running(UpdateRooms)

NextUpdates ==
    \/ \E i \in 1..MaxTimers : TimerCheck(i)
    \/ \E i \in 1..MaxTimers : TimerTick(i, MaxCountdown)
    \/ \E i \in 1..MaxTimers : TimerGameOver(i)

SpecUpdates == InitUpdates /\ [][NextUpdates]_vars

\* the lobby with host and guest ready to start, or their game completed, and
\* a late guest: the start, leaves and the countdown against the late join
JoinRooms ==
    {GameRoom(Roster)} \cup
    {[r EXCEPT !.stage = LastStage + 1, !.status = "completed"] :
        r \in {Started(GameRoom(Roster), pz) :
                  pz \in GeneratePuzzles(GameRoom(Roster), LastStage)}}

InitJoin ==
    /\ store \in JoinRooms
    /\ playerRec = [q \in Ids |-> IF q \in DOMAIN Roster THEN "on" ELSE "absent"]
    /\ conns = {}
    /\ h = [q \in Ids |-> Closed]
    /\ timers = [i \in 1..MaxTimers |-> TimerOff]
    /\ voteTimers = 0
    /\ voteFin = <<>>
    /\ joined = DOMAIN Roster
    /\ ticks = 0
    /\ nVotes = 0
    /\ applied = [k \in 0..MaxVotes |-> 0]
    /\ nDrops = 0
    /\ out = {}
    /\ NoEdge
    /\ NoPower
    /\ NoUpkeep
    /\ NoRelay

NextJoin ==
    \/ \E p \in Ids : JoinFrom(p, Guests \cup LateGuests)
    \/ \E pid \in Ids \cup {""} : StartHTTP(pid)
    \/ \E p \in Ids : StartWS(p)
    \/ \E p \in Ids : Connect(p)
    \/ LeaveNext
    \/ TimerNext

SpecJoin == InitJoin /\ [][NextJoin]_vars

\* rooms of every status with none, one or two players, each marked connected
\* or not, stored at second 0: the sweeps against the handlers that store
SweepRosters ==
    {EmptyMap}
    \cup {Host :> Player("Hacker", c, TRUE) : c \in BOOLEAN}
    \cup {(Host :> Player("Hacker", c, TRUE)) @@ ("p2" :> Player("Lookout", d, FALSE)) :
            c \in BOOLEAN, d \in BOOLEAN}

SweepRooms ==
    {[GameRoom(ps) EXCEPT !.status = st] :
       ps \in SweepRosters, st \in {"waiting", "in_progress", "completed", "failed"}}

InitSweep ==
    /\ store \in SweepRooms
    /\ playerRec = [q \in Ids |-> IF q \notin DOMAIN store.players THEN "absent"
                                  ELSE IF store.players[q].connected THEN "on"
                                  ELSE "off"]
    /\ conns = {q \in DOMAIN store.players : store.players[q].connected}
    /\ h = [q \in Ids |-> IF q \in conns THEN Idle ELSE Closed]
    /\ timers = [i \in 1..MaxTimers |-> TimerOff]
    /\ voteTimers = 0
    /\ voteFin = <<>>
    /\ joined = DOMAIN store.players
    /\ ticks = 0
    /\ nVotes = 0
    /\ applied = [k \in 0..MaxVotes |-> 0]
    /\ nDrops = 0
    /\ out = {}
    /\ NoEdge
    /\ NoPower
    /\ NoUpkeep
    /\ room_connections = DOMAIN store.players
    /\ fanout = NoFanout
    /\ scheduler = NoEvent
    /\ vote_timer = NoVoteTimer

NextSweep ==
    \/ SweepRoom
    \/ CleanupIfNoPlayersConnected
    \/ \E r \in SweepRooms : StoreRoomData(r)
    \/ Sleep

SpecSweep == InitSweep /\ [][NextSweep]_vars

\* a record as create_room or start_game stored it: one or two players with
\* or without roles, the host flag on the first, in the lobby or in stage 1
\* with a puzzle each and the empty completion row of start_game
RoundTripModels ==
    {RoomModel(ps, EmptyMap, EmptyMap, 0, "waiting") :
        ps \in {Host :> Player(ro, TRUE, TRUE) : ro \in {"", "Hacker"}}}
    \cup {RoomModel((Host :> Player("Hacker", TRUE, TRUE))
                    @@ ("p2" :> Player("Lookout", TRUE, FALSE)),
                    [q \in {Host, "p2"} \cup team |->
                        IF q = "team" THEN TeamPuzzle(FALSE) ELSE IndividualPuzzle],
                    StageKey(1) :> EmptyMap, 1, "in_progress") :
            team \in {{}, {"team"}}}

InitRoundTrip ==
    /\ store = GameRoom(Host :> Player("", TRUE, TRUE))
    /\ playerRec = [q \in Ids |-> IF q = Host THEN "on" ELSE "absent"]
    /\ conns = {}
    /\ h = [q \in Ids |-> Closed]
    /\ timers = [i \in 1..MaxTimers |-> TimerOff]
    /\ voteTimers = 0
    /\ voteFin = <<>>
    /\ joined = {Host}
    /\ ticks = 0
    /\ nVotes = 0
    /\ applied = [k \in 0..MaxVotes |-> 0]
    /\ nDrops = 0
    /\ out = {}
    /\ NoEdge
    /\ NoPower
    /\ last_activity = 0
    /\ now = 0
    /\ record \in {Serialized(m, 0) : m \in RoundTripModels}
    /\ resaves = 0
    /\ NoRelay

NextRoundTrip ==
    \/ Resave
    \/ \E p \in Ids : SolveAndStore(p)
    \/ \E p \in Ids, flag \in BOOLEAN : MarkAndStore(p, flag)
    \/ Sleep

SpecRoundTrip == InitRoundTrip /\ [][NextRoundTrip]_vars

\* ----------------------------------------------------------------- claims
\* the roster part of C1 on its own: in every persisted room record no
\* non-empty role is held by two players
RolesUnique ==
    Present(store) =>
        \A p, q \in DOMAIN store.players :
            (p # q /\ store.players[p].role # "")
                => store.players[p].role # store.players[q].role

\* C1: in every persisted room record each non-empty role is held by at most
\* one player, under every interleaving of the select_role requests, joins,
\* leaves and background writes; and a select_role, by message or by HTTP,
\* for a role held by a different player is answered with 'Role already
\* taken' and leaves the roster as it was
C1_RoleHeldOnce ==
    /\ []RolesUnique
    /\ [][\A p \in Ids, role \in Roles :
            ( /\ SelectRoleWS(p, role) \/ SelectRoleHTTP(p, role)
              /\ Present(store)
              /\ p \in DOMAIN store.players
              /\ \E q \in DOMAIN store.players \ {p} : store.players[q].role = role )
            => ( /\ store'.players = store.players
                 /\ \E m \in out' : m.type = "error" /\ m.info = "Role already taken" )]_vars

\* C2: the persisted stage never decreases: every write to the room record
\* stores a stage at least as large as the one stored before it
C2_StageNeverDecreases ==
    [][(Present(store) /\ Present(store')) => store'.stage >= store.stage]_vars

\* C3: the persisted status moves only waiting -> in_progress ->
\* {completed, failed}; once it is completed or failed no write changes it
C3_StatusOrder ==
    [][(Present(store) /\ Present(store')) =>
          \/ store'.status = store.status
          \/ store.status = "waiting" /\ store'.status = "in_progress"
          \/ store.status = "in_progress" /\ store'.status \in Terminal]_vars

\* C4: a write increments the stage only when every puzzle of the room,
\* the team puzzle included, is completed, or when a team puzzle flagged
\* completes_stage has been solved
C4_AdvanceNeedsCompletion ==
    [][(Present(store) /\ Present(store') /\ store'.stage > store.stage) =>
          \/ \A k \in DOMAIN store.puzzles : store.puzzles[k].completed
          \/ /\ "team" \in DOMAIN store.puzzles
             /\ store.puzzles["team"].completes_stage
             /\ store.puzzles["team"].completed]_vars

\* C5: a puzzle_solution for a puzzle whose completed flag is already true
\* changes neither the stage nor the status of the room, whatever the status
C5_ResubmissionChangesNothing ==
    [][\A p \in Ids :
            (h[p].pc = "ps_adv" /\ h[p].again /\ PuzzleAdvance(p))
            => (store'.stage = store.stage /\ store'.status = store.status)]_vars

\* C6: a room in progress with timer N > 0 and no client action reaches, after
\* N iterations of the countdown, timer 0 and status failed; game_over with
\* result time_expired is broadcast exactly once and the task then ends
\* (timers[1] is the room's countdown task)
C6_CountdownExpires ==
    /\ [][ticks' + store'.timer = ticks + store.timer]_vars
    /\ [](/\ timers[1].sent <= 1
          /\ timers[1].pc = "done" =>
                /\ store.timer = 0
                /\ store.status = "failed"
                /\ timers[1].sent = 1)
    /\ <>(timers[1].pc = "done")

C6_Witness ==
    /\ timers[1].pc = "done"
    /\ ticks = MaxCountdown
    /\ store.timer = 0
    /\ store.status = "failed"
    /\ out = {Msg("game_over", "room", "time_expired", 0, 0, 0)}

\* C7: every initiated vote is applied at most once, whatever the interleaving
\* of the last voter's handler, the vote timer and the result processing, and
\* a vote that fails changes neither the timer nor the alert level
C7_VoteAppliedOnce ==
    /\ [](\A k \in 1..MaxVotes : applied[k] <= 1)
    /\ [][\A m \in out' :
            (m.type = "timer_vote_completed" /\ m.info = "failed"
             /\ (VoteTimerExpire \/ \E p \in Ids : VoteResolve(p)))
            => (store'.timer = store.timer /\ store'.alert_level = store.alert_level)]_vars

\* C8: a vote resolved with c players marked connected and y ids in the yes
\* list needs max(1, floor(c/2) + 1) votes and succeeds exactly when y reaches
\* that number; with c = 5 it needs 3, so 2 yes and 1 no fail at the time-out
\* and 3 yes succeed, adding 60 to the timer and 1 to the alert level
C8_Tally ==
    [][\A m \in out' :
          (m.type = "timer_vote_completed" /\ VoteTimerExpire) =>
             LET c == Cardinality({q \in DOMAIN store.players : store.players[q].connected})
                 y == Len(store.yes)
                 required == IF (c \div 2) + 1 >= 1 THEN (c \div 2) + 1 ELSE 1
             IN  /\ m.a = required
                 /\ m.d = c
                 /\ (m.info = "success") <=> (y >= required)
                 /\ m.info \in {"success", "failed"}
                 /\ m.info = "success" =>
                       /\ store'.timer = store.timer + 60
                       /\ store'.alert_level = store.alert_level + 1
                 /\ m.info = "failed" =>
                       /\ store'.timer = store.timer
                       /\ store'.alert_level = store.alert_level
                 /\ c = 5 => m.a = 3
                 /\ (c = 5 /\ y = 2 /\ Len(store.no) = 1) => m.info = "failed"
                 /\ (c = 5 /\ y = 3) => m.info = "success"]_vars

C8_Witness ==
    /\ \E m \in out : /\ m.type = "timer_vote_completed"
                       /\ m.info = "success"
                       /\ m.d = 5
                       /\ m.b = 3
    /\ store.timer = DefaultTimer + 60
    /\ store.alert_level = 1

\* C9: an initiate_timer_vote received while a vote is active is answered
\* with an error to its sender and changes nothing: the votes, the initiator
\* and the running vote timer stay as they are
C9_SecondVoteRejected ==
    [][\A p \in Ids :
          (InitiateVote(p) /\ Present(store) /\ store.timer_vote_active) =>
             /\ store' = store
             /\ voteTimers' = voteTimers
             /\ \E m \in out' : m.type = "error" /\ m.to = p]_vars

\* C10: an extend_timer_vote is refused when no vote is active or when its
\* sender is already in the yes or the no list, so in every persisted room
\* record no player id occurs twice across the two lists
C10_OneVoteEach ==
    /\ [](Present(store) =>
            LET all == store.yes \o store.no
            IN  \A i, j \in 1..Len(all) : all[i] = all[j] => i = j)
    /\ [][\A p \in Ids, vote \in BOOLEAN :
            ( /\ ExtendVote(p, vote)
              /\ Present(store)
              /\ \/ ~store.timer_vote_active
                 \/ \E i \in 1..Len(store.yes) : store.yes[i] = p
                 \/ \E i \in 1..Len(store.no) : store.no[i] = p )
            => store' = store]_vars

C10_Witness ==
    /\ Present(store)
    /\ store.timer_vote_active
    /\ \E m \in out : /\ m.type = "error"
                       /\ m.info = "You have already voted"
                       /\ m.to \in Range(store.yes) \cup Range(store.no)

\* C11: a vote is resolved before its time limit only in a state where every
\* player marked connected in the room has its id in the yes or the no list
C11_EarlyResolveNeedsAllVotes ==
    [][\A p \in Ids :
          (VoteResolve(p) /\ Present(store) /\ store.timer_vote_active) =>
             \A q \in DOMAIN store.players :
                store.players[q].connected =>
                   \/ \E i \in 1..Len(store.yes) : store.yes[i] = q
                   \/ \E i \in 1..Len(store.no) : store.no[i] = q]_vars

\* C12: every initiated vote is resolved: timer_vote_completed is broadcast
\* with the yes count, the no count and the number of connected players,
\* whether the vote succeeded or failed, and once the tasks of the votes have
\* ended the persisted record has no active vote and both lists empty
C12_VoteResolved ==
    /\ []((/\ nVotes > 0
           /\ voteTimers = 0
           /\ voteFin = <<>>
           /\ \A p \in Ids : h[p].pc \notin {"vote_res", "vote_fin"}
           /\ Present(store))
          => (/\ ~store.timer_vote_active
              /\ store.yes = <<>>
              /\ store.no = <<>>))
    /\ [][\A m \in out' :
            m.type = "timer_vote_completed" =>
               /\ m.info \in {"success", "failed"}
               /\ m.b = Len(store.yes)
               /\ m.c = Len(store.no)
               /\ m.d = Cardinality({q \in DOMAIN store.players :
                                        store.players[q].connected})]_vars

C14_LeaveRemovesPlayer ==
    [][\A p \in Ids :
          /\ (Leave(p) /\ Present(store)) =>
                /\ DOMAIN store'.players = DOMAIN store.players \ {p}
                /\ \A q \in DOMAIN store'.players : store'.players[q] = store.players[q]
                /\ \E m \in out' : m.type = "player_left"
                /\ (store.status = "in_progress"
                    /\ Cardinality(DOMAIN store.players \ {p}) < 2)
                      => (h'[p].pc = "lv_fin" /\ h'[p].room = store')
          /\ LeaveFinish(p) =>
                /\ store'.status = "failed"
                /\ p \notin DOMAIN store'.players
                /\ \E m \in out' : /\ m.type = "game_over"
                                   /\ m.info = "insufficient_players"]_vars

C14_Witness ==
    /\ Present(store)
    /\ store.status = "failed"
    /\ DOMAIN store.players = {Host}
    /\ "p2" \in joined
    /\ playerRec["p2"] = "absent"
    /\ h["p2"].pc = "idle"
    /\ \E m \in out : m.type = "game_over" /\ m.info = "insufficient_players" /\ m.a = 1

\* C15: when a leave_game removes the last player of a room the room record
\* is deleted from the store, whatever the status of the room: the handler
\* deletes the record, or is on its way to deleting it, and does not return
\* leaving a record with an empty roster
C15_LastLeaveDeletesRoom ==
    [][\A p \in Ids :
          /\ (Leave(p) /\ Present(store) /\ DOMAIN store.players = {p}) =>
                (~Present(store') \/ h'[p].pc = "lv_fin")
          /\ (LeaveFinish(p) /\ DOMAIN h[p].room.players = {}) => h'[p].pc = "lv_del"
          /\ LeaveDelete(p) => ~Present(store')]_vars

\* C16: in every persisted room record every key of puzzles other than "team"
\* (and every player id of a stage_completion entry, which is written with the
\* same ids as the keys of puzzles) is a key of players, also after a player
\* has left through leave_game.  The formula is the conjunct on puzzles.
C16_PuzzleOwnersAreMembers ==
    Present(store) =>
        \A k \in DOMAIN store.puzzles \ {"team"} : k \in DOMAIN store.players

\* C17: a start request, by the start_game message or by the HTTP endpoint,
\* succeeds only if its requester is the host of the room, the persisted
\* status is waiting and every player of the roster has a role; on success
\* the record has status in_progress, stage 1, alert level 0, the default
\* timer and the puzzles of stage 1, and on rejection it is unchanged
C17_StartOnlyByHost ==
    [][\A pid \in Ids \cup {""} :
          ( /\ StartHTTP(pid) \/ (pid \in Ids /\ StartWS(pid))
            /\ Present(store) ) =>
             /\ (\E m \in out' : m.type = "error") => store' = store
             /\ (store' # store \/ \E m \in out' : m.type = "game_started") =>
                  /\ pid \in DOMAIN store.players
                  /\ store.players[pid].is_host
                  /\ store.status = "waiting"
                  /\ \A q \in DOMAIN store.players : store.players[q].role # ""
                  /\ store'.status = "in_progress"
                  /\ store'.stage = 1
                  /\ store'.alert_level = 0
                  /\ store'.timer = 300
                  /\ store'.players = store.players
                  /\ \A k \in DOMAIN store'.puzzles : ~store'.puzzles[k].completed
                  /\ DOMAIN store'.puzzles =
                        {q \in DOMAIN store.players : store.players[q].role \in PuzzleRoles}]_vars

\* C18: a join succeeds only when the persisted status is waiting; once the
\* status is in_progress, completed or failed a join is rejected and the
\* roster does not gain the player
C18_JoinOnlyWhileWaiting ==
    [][\A p \in Guests \cup LateGuests :
          (JoinFrom(p, Guests \cup LateGuests) /\ Present(store)) =>
             /\ (store.status = "waiting") <=> (p \in DOMAIN store'.players)
             /\ store.status # "waiting" =>
                   /\ store' = store
                   /\ playerRec' = playerRec
                   /\ \E m \in out' : m.type = "error" /\ m.context = "join"
             /\ store'.status = store.status]_vars

C18_Witness ==
    /\ Present(store)
    /\ store.status \in Terminal
    /\ "p3" \notin DOMAIN store.players
    /\ out = {Err("http", "join", "Game already in progress")}

\* C19: while a team puzzle exists and is not completed, the solution that
\* completes the last individual puzzle broadcasts team_puzzle_ready and does
\* not advance the stage; a successful team solution then submitted by any
\* player of the room marks the team puzzle completed and advances the stage
C19_TeamPuzzleGate ==
    [][\A p \in Ids, sol \in Solutions :
          ( /\ PuzzleSolution(p, sol)
            /\ p \in DOMAIN store.players
            /\ "team" \in DOMAIN store.puzzles
            /\ ~store.puzzles["team"].completed
            /\ sol.success ) =>
             LET mine == DOMAIN store.puzzles \ {"team"}
                 others == \A k \in mine \ {p} : store.puzzles[k].completed
             IN  /\ (p \in mine /\ ~store.puzzles[p].completed /\ others) =>
                       /\ \E m \in out' : m.type = "team_puzzle_ready"
                       /\ store'.stage = store.stage
                       /\ h'[p].pc # "ps_adv"
                 /\ (\A k \in mine : store.puzzles[k].completed) =>
                       /\ store'.puzzles["team"].completed
                       /\ h'[p].pc = "ps_adv"
                       /\ \A next \in Advances(h'[p].room) : next.stage = store.stage + 1]_vars

C21_ConnectGreetsOnce ==
    [][\A p \in Ids :
          (Connect(p) /\ Present(store) /\ p \in DOMAIN store.players) =>
             /\ p \in conns'
             /\ store'.players[p].connected
             /\ (Msg("game_state", p, "", 0, 0, 0) \in out')
                   <=> ~store.players[p].connected
             /\ (Bcast("player_connected") \in out')
                   <=> ~store.players[p].connected]_vars

\* a player whose flag was false has reconnected and was sent the snapshot
C21_Witness ==
    \E p \in conns :
        /\ Present(store) /\ p \in DOMAIN store.players
        /\ store.players[p].connected
        /\ h[p].pc = "idle"
        /\ out = {Msg("game_state", p, "", 0, 0, 0), Bcast("player_connected")}

\* C22: whenever the handler of a connection ends, by a disconnect or by an
\* error, the connection is no longer registered, the player's persisted
\* connected flag is false and player_disconnected is broadcast
C22_HandlerEndDeregisters ==
    [][\A p \in Ids :
          (h[p].pc = "idle" /\ h'[p].pc \in {"closed", "dc_end", "dc_over"}) =>
             /\ p \notin conns'
             /\ (Present(store') /\ p \in DOMAIN store'.players)
                   => ~store'.players[p].connected
             /\ Bcast("player_disconnected") \in out']_vars

RECURSIVE SumOver(_, _)
\* the sum of f over the finite set S
SumOver(f, S) ==
    IF S = {} THEN 0
    ELSE LET x == CHOOSE y \in S : TRUE IN f[x] + SumOver(f, S \ {x})

\* the admitted endpoint calls of an address, of a room code, that have not
\* returned
OpenFrom(a) == SumOver([c \in RoomCodes |-> handlers[a, c]], RoomCodes)
OpenFor(c) == SumOver([a \in Addresses |-> handlers[a, c]], Addresses)

\* C23: the open handlers per address are at most MAX_CONNECTIONS_PER_IP and
\* per room at most MAX_CONNECTIONS_PER_ROOM; the counters equal the number
\* of admitted handlers that have not ended and are never negative; an
\* attempt that finds a ceiling reached is closed with the policy-violation
\* code and changes neither the counters nor the rate window
C23_ConnectionCeilings ==
    /\ [](/\ \A a \in Addresses :
                /\ connections_by_ip[a] = OpenFrom(a)
                /\ connections_by_ip[a] >= 0
                /\ OpenFrom(a) <= MAX_CONNECTIONS_PER_IP
          /\ \A c \in RoomCodes :
                /\ connections_by_room[c] = OpenFor(c)
                /\ connections_by_room[c] >= 0
                /\ OpenFor(c) <= MAX_CONNECTIONS_PER_ROOM)
    /\ [][\A a \in Addresses, c \in RoomCodes :
            (/\ Attempt(a, c)
             /\ \/ connections_by_ip[a] >= MAX_CONNECTIONS_PER_IP
                \/ connections_by_room[c] >= MAX_CONNECTIONS_PER_ROOM) =>
               /\ out' = {PolicyClose(a)}
               /\ UNCHANGED <<connections_by_ip, connections_by_room,
                              connection_times_by_ip, handlers>>]_vars

\* an attempt was closed because its address has MAX_CONNECTIONS_PER_IP open
\* handlers, all rooms being full
C23_Witness ==
    \E a \in Addresses :
        /\ connections_by_ip[a] = MAX_CONNECTIONS_PER_IP
        /\ \A c \in RoomCodes : connections_by_room[c] = MAX_CONNECTIONS_PER_ROOM
        /\ out = {PolicyClose(a)}

\* C24: for every address, the attempts admitted within any one second are
\* at most CONNECTION_RATE_LIMIT, whatever connects and disconnects came
\* before
C24_RateLimit ==
    \A a \in Addresses :
        Len(Recent(admitted[a], loop_time)) <= CONNECTION_RATE_LIMIT

\* C25: a call of broadcast_to_room visits every id of the room; an id that
\* is not the excluded one and has a registered connection is sent the
\* message; when that send fails only that id's connection is removed and
\* the call goes on with the remaining ids; no exception leaves the call
C25_BroadcastFanOut ==
    /\ [](/\ fanout.pc # "raised"
          /\ fanout.pc = "sending" => fanout.visited \cup fanout.todo = fanout.ids)
    /\ [][/\ \A x \in Ids \cup {""} :
                BroadcastStart(x) =>
                   /\ fanout'.ids = GetPlayersInRoom
                   /\ fanout'.pc = IF GetPlayersInRoom = {} THEN "done" ELSE "sending"
          /\ \A q \in Ids, ok \in BOOLEAN :
                BroadcastSend(q, ok) =>
                   LET due == q \in conns
                              /\ ~(fanout.exclude # "" /\ q = fanout.exclude)
                   IN  /\ (due /\ ok) => (out' = {Delivery(q)} /\ conns' = conns)
                       /\ (due /\ ~ok) => (out' = {} /\ conns' = conns \ {q})
                       /\ ~due => (out' = {} /\ conns' = conns)
                       /\ fanout'.pc = "sending"
                       /\ fanout'.todo = fanout.todo \ {q}]_vars

\* a call has returned after a send to one player failed and a send to
\* another succeeded
C25_Witness ==
    /\ fanout.pc = "done"
    /\ fanout.sent_count >= 1
    /\ \E q \in fanout.visited :
          q # fanout.exclude /\ q \notin conns /\ h[q].pc = "idle"

\* C26: every rejected client action (a start by a player that is not the
\* host or outside status waiting, a role held by another player, a vote
\* initiated while one is active, a vote cast with no active vote or a second
\* time) sends exactly one error with a context tag, to the sender, and
\* leaves the persisted room record unchanged
C26_RejectionsAnswerSender ==
    [][\A p \in Ids :
          (\/ /\ StartWS(p)
              /\ Present(store)
              /\ ~IsHost(store, p) \/ store.status # "waiting"
           \/ \E role \in Roles :
                 SelectRoleWS(p, role) /\ Present(store) /\ RoleTaken(store, p, role)
           \/ InitiateVote(p) /\ Present(store) /\ VoteActive(store)
           \/ \E vote \in BOOLEAN :
                 /\ ExtendVote(p, vote)
                 /\ Present(store)
                 /\ ~VoteActive(store) \/ AlreadyVoted(store, p))
          => /\ \E m \in out' :
                   m.type = "error" /\ m.to = p /\ m.context # "" /\ out' = {m}
             /\ store' = store]_vars

\* a reversal of the Demolitions effect is scheduled and has not fired
ReversalPending ==
    \E k \in 1..Len(effects) :
        effects[k].kind = "restore_alert_level" /\ effects[k].pc = "sleep"

\* the alert level before the use that scheduled the pending reversal
PendingBaseline ==
    LET k == CHOOSE j \in 1..Len(effects) :
                 effects[j].kind = "restore_alert_level" /\ effects[j].pc = "sleep"
    IN  effects[k].original_level

DemolitionsUse(p) ==
    UsePower(p) /\ Present(store) /\ RoleOf(store, p) = "Demolitions"

\* C27: a use of the Demolitions power with no reversal pending saves the
\* alert level as the baseline, lowers it by two but not below zero and
\* schedules the reversal; a use while the reversal is pending leaves the saved
\* baseline and the alert level as they are; the reversal, when it fires, sets
\* the alert level back to its value before the first use
C27_DemolitionsBaselineOnce ==
    [][/\ \A p \in Ids : DemolitionsUse(p) =>
            IF ReversalPending
            THEN /\ store'.alert_level = store.alert_level
                 /\ store'.has_original_alert_level
                 /\ store'.original_alert_level = PendingBaseline
            ELSE /\ store'.has_original_alert_level
                 /\ store'.original_alert_level = store.alert_level
                 /\ store'.alert_level = Max(0, store.alert_level - DemolitionsCut)
                 /\ ReversalPending'
       /\ \A k \in 1..Len(effects) :
            RestoreAlertLevel(k) /\ Present(store) =>
                store'.alert_level = effects[k].original_level]_vars

\* the countdown has stored a timer of 0 and has yet to store "failed"
ExpiryPending == \E i \in 1..MaxTimers : timers[i].pc = "over"

\* C28: the stored room never has a negative timer or a negative alert level,
\* and whenever it has timer 0 with status in_progress, the countdown that
\* stores status failed is still to act
C28_TimerAndAlertBounds ==
    Present(store) =>
        /\ store.timer >= 0
        /\ store.alert_level >= 0
        /\ (store.timer = 0 /\ store.status = "in_progress") => ExpiryPending

\* a sweep removes the room
SweepDeletes ==
    /\ SweepRoom \/ CleanupIfNoPlayersConnected
    /\ Present(store)
    /\ ~Present(store')

RecentlyActive == now - last_activity <= MAX_ROOM_IDLE_TIME

\* the three conditions under which a sweep may delete the room
MayDelete ==
    \/ now - last_activity > MAX_ROOM_IDLE_TIME
    \/ Ended(store) /\ AllDisconnected(store)
    \/ store.status = "waiting" /\ DOMAIN store.players = {}

\* C29, as stated: a sweep deletes the room only when it is idle beyond the
\* threshold, or ended with no player marked connected, or waiting with no
\* players; it never deletes a recently active room in progress, and never an
\* ended room with a player marked connected
C29_SweepSparesConnectedEnded ==
    [][/\ SweepDeletes => MayDelete
       /\ SweepDeletes => ~(RecentlyActive /\ store.status = "in_progress")
       /\ SweepDeletes => ~(Ended(store) /\ ~AllDisconnected(store))]_vars

\* C29, amended: a sweep deletes the room only when it is idle beyond the
\* threshold, or ended with no player marked connected, or waiting with no
\* players; it never deletes a recently active room that is in progress or
\* that is ended with a player marked connected
C29_SweepDeletesOnlyIdleOrAbandoned ==
    [][/\ SweepDeletes => MayDelete
       /\ SweepDeletes => ~(RecentlyActive /\ store.status = "in_progress")
       /\ SweepDeletes =>
              ~(RecentlyActive /\ Ended(store) /\ ~AllDisconnected(store))]_vars

\* a sweep has deleted a room that was not idle beyond the threshold: an ended
\* room without a connected player or an empty waiting room
C29_Witness ==
    /\ ~Present(store)
    /\ now > 0
    /\ now - last_activity <= MAX_ROOM_IDLE_TIME

C31_TickKeepsConcurrentWrites ==
    [][\A i \in 1..MaxTimers :
          (TimerTick(i, MaxTicks) /\ Present(store)) =>
              store' = [store EXCEPT !.timer = @ - 1]]_vars

\* C32: once the stored status is completed or failed, or the record is gone,
\* no step of the countdown task and no step of a vote-timer task changes
\* what is in the store
C32_EndedTasksDoNotWrite ==
    [][(~Present(store) \/ store.status \in Terminal) =>
          /\ \A i \in 1..MaxTimers :
                (TimerTick(i, MaxTicks) \/ TimerGameOver(i)) => store' = store
          /\ VoteTimerExpire => store' = store
          /\ \A k \in 1..MaxVotes : VoteTaskFinish(k) => store' = store]_vars

\* the record s2 is the record s1 but for the connected flag of p and the
\* status
OnlyFlagAndStatus(s1, s2, p) ==
    /\ Present(s2)
    /\ p \in DOMAIN s2.players
    /\ s2 = [s1 EXCEPT !.players[p].connected = s2.players[p].connected,
                       !.status = s2.status]

\* C33: the writes of a disconnect change nothing in the record but the
\* connected flag of the player that disconnects, which becomes false, and the
\* status, which changes only to failed under the insufficient-players rule:
\* the roster, every role and every is_host flag stay; and a later connection
\* of a player of the roster is accepted and marks the player connected
C33_DisconnectKeepsPlayer ==
    [][\A p \in Ids :
          /\ (DisconnectWithin(p, MaxSeqDrops) /\ Present(store)
                /\ p \in DOMAIN store.players) =>
                 store' = [store EXCEPT !.players[p].connected = FALSE]
          /\ (DisconnectEnd(p) /\ Present(store) /\ p \in DOMAIN store.players) =>
                 /\ OnlyFlagAndStatus(store, store', p)
                 /\ ~store'.players[p].connected
                 /\ store'.status = "failed"
          /\ (Connect(p) /\ Present(store) /\ p \in DOMAIN store.players) =>
                 /\ store' = [store EXCEPT !.players[p].connected = TRUE]
                 /\ p \in conns'
                 /\ h'[p] = Idle]_vars

\* a task of the Lookout power that has yet to reach, or to finish,
\* reset_lookout_ability
ResetPending ==
    \E k \in 1..Len(effects) :
        /\ effects[k].kind = "handle_lookout_power"
        /\ effects[k].pc \in {"start", "boost", "reset"}

\* C34: whenever next_events_visible is true in the stored record, a task of
\* the Lookout power is on its way to the write that sets it back to false,
\* whatever happened to the Lookout's connection in the meantime
C34_LookoutFlagIsReset ==
    (Present(store) /\ store.next_events_visible) => ResetPending

\* C35: a random_event that the scheduler broadcasts after reading a record
\* with next_events_visible true comes after a lookout_warning of the same
\* call naming the same event; a lookout_warning is broadcast only when the
\* record read has next_events_visible true
C35_WarningBeforeEvent ==
    [][/\ \A m \in out' :
            m.type = "lookout_warning" =>
                Present(store) /\ store.next_events_visible
       /\ \A e \in Draws :
            (EventStart(e) /\ Present(store) /\ store.next_events_visible) =>
                \A m \in out' : m.type # "random_event"
       /\ EventFire =>
            /\ scheduler.warned
            /\ \A m \in out' : m.type = "random_event" => m.info = scheduler.event]_vars

\* the scheduler has warned of an event and then broadcast that event
C35_Witness ==
    /\ scheduler.pc = "idle"
    /\ scheduler.warned
    /\ \E m \in out : m.type = "random_event" /\ m.info = scheduler.event

\* C36: the iteration of the countdown that stores the timer value t
\* broadcasts a timer_update, carrying t, exactly when t is a multiple of 15,
\* or t is at most 30 and a multiple of 5, or t is at most 10
C36_TimerUpdateRate ==
    [][\A i \in 1..MaxTimers :
          TimerTick(i, MaxCountdown) =>
              LET t == store'.timer
              IN  /\ (\E m \in out' : m.type = "timer_update")
                        <=> (t % 15 = 0 \/ (t <= 30 /\ t % 5 = 0) \/ t <= 10)
                  /\ \A m \in out' : m.type = "timer_update" => m.a = t]_vars

\* the countdown has stored 35, a multiple of 5 above 30, without an update
C36_Witness ==
    /\ Present(store)
    /\ store.timer = 35
    /\ ticks > 0
    /\ \A m \in out : m.type # "timer_update"

\* C37: once the room record has been deleted, no step of a handler or of a
\* background task stores it again; the room stays absent from the store
C37_DeletedRoomStaysDeleted ==
    [][(Present(store) /\ ~Present(store'))
          \/ (~Present(store) => ~Present(store'))]_vars

\* C38: when a vote-timer task resolves the active vote by time-out, at least
\* timer_vote_time_limit seconds have elapsed since that vote was initiated,
\* and the task is the one that was created for that vote
C38_TimeoutAfterOwnLimit ==
    [][\A i \in 1..MaxBallots :
          (VoteTimerTimeout(i) /\ Present(store) /\ VoteActive(store)) =>
              /\ vote_timer.elapsed >= timer_vote_time_limit
              /\ vote_timer.tasks[i].vote = store.vote_id]_vars

\* C39: in the stored room record a player's connected flag is true only
\* while a connection of that player is registered in connected_players
C39_ConnectedFlagMeansRegistered ==
    Present(store) =>
        \A q \in DOMAIN store.players : store.players[q].connected => q \in conns

\* C40: once the stored status is completed or failed, no step of a handler or
\* of a background task changes the stored stage, timer or alert_level
C40_EndedGameIsFrozen ==
    [][(Present(store) /\ store.status \in {"completed", "failed"} /\ Present(store'))
          => /\ store'.stage = store.stage
             /\ store'.timer = store.timer
             /\ store'.alert_level = store.alert_level]_vars

====
